---------------------------- MODULE Spec2Model ----------------------------
(***************************************************************************)
(* Verification model of opensite-ai/page-speed-img: the image metadata    *)
(* fetcher (fetchImageData), its module-level result cache (l2Cache) and   *)
(* the legacy mediaId image component (LegacyImg).                         *)
(*                                                                         *)
(* Conventions.  A JavaScript string is a sequence of tokens; every token  *)
(* is a TLA+ string, a slash and a dot are always the tokens "/" and "."    *)
(* of their own, a scheme with its colon is one token ("https:", "data:")  *)
(* and white space only occurs as the tokens " ", "\t" and "\n".  A         *)
(* JavaScript value that may be a string, null or undefined is a record    *)
(* [t, s].                                                                 *)
(***************************************************************************)
EXTENDS Integers, Sequences, FiniteSets, TLC

VARIABLES
    cache,      \* l2Cache: the module-level Map behind cacheGet/cacheSet
    calls,      \* the fetchImageData invocations, one record per slot
    comp,       \* the LegacyImg component instance (props, hook state, effects)
    page,       \* the module-level state of the Img module, the host's globals
                \* and console, and the Img / ModernImg instance
    probe       \* a caller of the pure functions (the classifier, the URL
                \* builder, the cache functions, the resolver and the render
                \* of LegacyImg): its arguments and the answers it has received

vars == <<cache, calls, comp, page, probe>>

(***************************************************************************)
(* Bounds                                                                  *)
(***************************************************************************)
\* number of fetchImageData invocations direct callers have unsettled or
\* unconsumed at the same time
MaxCalls == 1

\* number of fetchImageData invocations of the component whose promise
\* callbacks have not run yet
MaxFetches == 2
MaxChecks == 2

\* number of calls of resetResponsivePictureState and of changes of a
\* srcset attribute by other code
MaxResets == 2
MaxChanges == 2

\* number of fetchImageData invocations for one identifier and host that
\* direct callers have in flight at the same time
MaxConcurrent == 2

\* number of fetch failures of the component that the console has been told of
MaxWarnings == 1

\* number of calls of the cache functions by a direct caller
MaxOps == 3

ApiSlots == 1..MaxCalls
FetchSlots == 1..MaxFetches
ConcurrentSlots == 1..MaxConcurrent
Slots == ApiSlots \cup FetchSlots \cup ConcurrentSlots

(***************************************************************************)
(* JavaScript values                                                       *)
(***************************************************************************)
Undef == [t |-> "undef", s |-> <<>>]
Null == [t |-> "null", s |-> <<>>]
Str(s) == [t |-> "str", s |-> s]

\* x ?? y
Coalesce(x, y) == IF x.t \in {"undef", "null"} THEN y ELSE x

\* typeof x === 'string'
IsString(x) == x.t = "str"

IsSpace(tok) == tok \in {" ", "\t", "\n"}

RECURSIVE TrimStart(_)
TrimStart(s) ==
    IF s = <<>> THEN <<>>
    ELSE IF IsSpace(Head(s)) THEN TrimStart(Tail(s)) ELSE s

RECURSIVE TrimEnd(_)
TrimEnd(s) ==
    IF s = <<>> THEN <<>>
    ELSE IF IsSpace(s[Len(s)]) THEN TrimEnd(SubSeq(s, 1, Len(s) - 1)) ELSE s

\* String.prototype.trim
Trim(s) == TrimEnd(TrimStart(s))

\* one token of String.prototype.toLowerCase
LowerTok(tok) ==
    CASE tok = "A" -> "a" [] tok = "D" -> "d" [] tok = "E" -> "e"
      [] tok = "F" -> "f" [] tok = "I" -> "i" [] tok = "L" -> "l"
      [] tok = "O" -> "o" [] tok = "R" -> "r"
      [] tok = "HTTP:" -> "http:" [] tok = "HTTPS:" -> "https:"
      [] tok = "Http:" -> "http:" [] tok = "DATA:" -> "data:"
      [] tok = "JPG" -> "jpg" [] tok = "PNG" -> "png" [] tok = "Img" -> "img"
      [] tok = "WEBP" -> "webp" [] tok = "AVIF" -> "avif" [] tok = "JPEG" -> "jpeg"
      [] OTHER -> tok

\* String.prototype.toLowerCase
ToLowerCase(s) == [i \in 1..Len(s) |-> LowerTok(s[i])]

(***************************************************************************)
(* Numbers given as mediaId: a finite number n is [t |-> "num", n |-> n];  *)
(* NaN, +Infinity, -Infinity and undefined are the other tags.             *)
(***************************************************************************)
Num(n) == [t |-> "num", n |-> n]
NaN == [t |-> "nan", n |-> 0]
PosInfinity == [t |-> "inf", n |-> 0]
NegInfinity == [t |-> "ninf", n |-> 0]
NoNumber == [t |-> "undef", n |-> 0]

\* Number.isFinite
IsFinite(m) == m.t = "num"

\* `${mediaId}` of a finite number
NumToStr(m) == <<ToString(m.n)>>

(***************************************************************************)
(* Image descriptors (types.ts: ProgressiveSizes, ImageVariantsMap,        *)
(* ImageVariantsData, ImageData)                                           *)
(***************************************************************************)
\* metadata.widths of a variant entry: the per-breakpoint widths under their
\* long and short names, each a number or absent
NoWidths ==
    [t |-> "undef", small |-> NoNumber, sm |-> NoNumber, medium |-> NoNumber,
     md |-> NoNumber, large |-> NoNumber, lg |-> NoNumber, full_size |-> NoNumber,
     full |-> NoNumber]
Widths(small, medium, large, full_size) ==
    [NoWidths EXCEPT !.t = "obj", !.small = small, !.medium = medium, !.large = large,
                     !.full_size = full_size]

\* metadata of a variant entry
NoMetadata == [t |-> "undef", widths |-> NoWidths]
Metadata(widths) == [t |-> "obj", widths |-> widths]

NoSizes ==
    [t |-> "undef", sm |-> Undef, md |-> Undef, lg |-> Undef, full |-> Undef,
     metadata |-> NoMetadata]
Sizes(sm, md, lg, full) ==
    [t |-> "obj", sm |-> sm, md |-> md, lg |-> lg, full |-> full, metadata |-> NoMetadata]

\* { width, height } of meta.sizing and of variants_data.metadata
NoDimensions == [t |-> "undef", width |-> NoNumber, height |-> NoNumber]
Dimensions(width, height) == [t |-> "obj", width |-> width, height |-> height]

\* meta.content_manifest and meta
NoManifest == [t |-> "undef", optimized_filename |-> Undef]
Manifest(optimized_filename) == [t |-> "obj", optimized_filename |-> optimized_filename]
NoMeta == [t |-> "undef", sizing |-> NoDimensions, content_manifest |-> NoManifest]
Meta(sizing, content_manifest) ==
    [t |-> "obj", sizing |-> sizing, content_manifest |-> content_manifest]

NullVariants == [t |-> "null", AVIF |-> NoSizes, WEBP |-> NoSizes, JPEG |-> NoSizes]
Variants(avif, webp, jpeg) == [t |-> "obj", AVIF |-> avif, WEBP |-> webp, JPEG |-> jpeg]

NoVariantsData ==
    [t |-> "undef", variants |-> NullVariants, status |-> Undef, metadata |-> NoDimensions]
VariantsData(variants, status) ==
    [t |-> "obj", variants |-> variants, status |-> status, metadata |-> NoDimensions]

\* a response body / descriptor without any optional field
EmptyData ==
    [t |-> "obj",
     variants_data |-> NoVariantsData,
     variants_status |-> Undef,
     img_url |-> Undef,
     file_data_url |-> Undef,
     file_data_thumbnail_url |-> Undef,
     img_src |-> Undef,
     med_src |-> Undef,
     thumb_src |-> Undef,
     low_res_thumb |-> Undef,
     fallback_url |-> Undef,
     meta |-> NoMeta]

\* the JavaScript null in a place where an ImageData is expected
NullData == [EmptyData EXCEPT !.t = "null"]

(***************************************************************************)
(* Source-availability classifier (utils/api.ts)                           *)
(***************************************************************************)
\* variant of hasUrlValue: the string is not trimmed
hasUrlValueUntrimmed(value) == IsString(value) /\ Len(value.s) > 0

\* typeof value === 'string' && value.trim().length > 0
hasUrlValue(value) == IsString(value) /\ Len(Trim(value.s)) > 0

hasRenderableUrlVariant(variant) ==
    IF variant.t # "obj" THEN FALSE
    ELSE \E value \in {variant.sm, variant.md, variant.lg, variant.full} :
            IsString(value) /\ Len(Trim(value.s)) > 0

imageVariantsHaveRenderableSource(variants) ==
    IF variants.t # "obj" THEN FALSE
    ELSE \E entry \in {variants.AVIF, variants.WEBP, variants.JPEG} :
            hasRenderableUrlVariant(entry)

\* data.variants_data?.variants ?? null
VariantsOf(data) ==
    IF data.t # "obj" \/ data.variants_data.t # "obj" THEN NullVariants
    ELSE IF data.variants_data.variants.t # "obj" THEN NullVariants
    ELSE data.variants_data.variants

DirectFields(data) ==
    {data.img_url, data.file_data_url, data.file_data_thumbnail_url,
     data.img_src, data.med_src, data.thumb_src, data.low_res_thumb}

imageDataHasRenderableSource(data) ==
    IF data.t # "obj" THEN FALSE
    ELSE IF imageVariantsHaveRenderableSource(VariantsOf(data)) THEN TRUE
    ELSE \E value \in DirectFields(data) : hasUrlValue(value)

(***************************************************************************)
(* URL builder (utils/api.ts)                                              *)
(***************************************************************************)
DEFAULT_CDN_HOST == <<"https:", "/", "/", "cdn", ".", "ing">>

\* s.replace(/\/$/, ''): drops one trailing slash
StripTrailingSlash(s) ==
    IF s # <<>> /\ s[Len(s)] = "/" THEN SubSeq(s, 1, Len(s) - 1) ELSE s

normalizeHost(cdnHost) == StripTrailingSlash(Coalesce(cdnHost, Str(DEFAULT_CDN_HOST)).s)

buildPrimaryImageUrl(mediaId, cdnHost) ==
    normalizeHost(cdnHost) \o <<"/", "assets", "/", "images", "/">> \o NumToStr(mediaId)

buildLegacyImageUrl(mediaId, cdnHost) ==
    normalizeHost(cdnHost) \o <<"/", "i", "/", "r", "/">> \o NumToStr(mediaId)

buildPlaceholderImageUrl(mediaId, cdnHost) ==
    normalizeHost(cdnHost) \o <<"/", "assets", "/", "low_res_thumb", "/">> \o NumToStr(mediaId)

\* `image:${host}:${mediaId}` with host = normalizeHost(options.cdnHost)
CacheKey(mediaId, cdnHost) ==
    <<"image:">> \o normalizeHost(cdnHost) \o <<":">> \o NumToStr(mediaId)

(***************************************************************************)
(* Result cache (utils/cache.ts): a Map from key to value                  *)
(***************************************************************************)
cacheHas(c, key) == key \in DOMAIN c

\* Map.get: the value, or undefined (here NullData with tag "undef")
cacheGet(c, key) == IF key \in DOMAIN c THEN c[key] ELSE [EmptyData EXCEPT !.t = "undef"]

\* variant of cacheSet: an existing entry is not overwritten
cacheSetKeepsFirst(c, key, value) ==
    [k \in DOMAIN c \cup {key} |-> IF k \in DOMAIN c THEN c[k] ELSE value]

cacheSet(c, key, value) ==
    [k \in DOMAIN c \cup {key} |-> IF k = key THEN value ELSE c[k]]


(***************************************************************************)
(* Errors.  isError is `instanceof Error`, name is the error's name,       *)
(* status and url are what the error carries (0 and <<>> when absent) and  *)
(* attempt is the endpoint attempt that created the object (its identity). *)
(***************************************************************************)
NoError ==
    [isError |-> FALSE, name |-> "", msg |-> "", status |-> 0, url |-> <<>>, attempt |-> 0]

\* new Error(`Failed to fetch image data (status ${res.status}) from ${url}`)
\* with error.status = res.status
HttpError(url, status, n) ==
    [isError |-> TRUE, name |-> "Error", msg |-> "Failed to fetch image data (status) from url",
     status |-> status, url |-> url, attempt |-> n]

\* the TypeError fetch rejects with on a transport failure
NetworkError(n) ==
    [isError |-> TRUE, name |-> "TypeError", msg |-> "Failed to fetch",
     status |-> 0, url |-> <<>>, attempt |-> n]

\* the DOMException fetch rejects with when its signal is aborted
AbortError(n) ==
    [isError |-> TRUE, name |-> "AbortError", msg |-> "The operation was aborted",
     status |-> 0, url |-> <<>>, attempt |-> n]

\* a rejection value that is not an Error instance
ThrownValue(n) ==
    [isError |-> FALSE, name |-> "", msg |-> "thrown", status |-> 0, url |-> <<>>, attempt |-> n]

InvalidMediaId ==
    [isError |-> TRUE, name |-> "Error", msg |-> "Invalid mediaId provided to fetchImageData",
     status |-> 0, url |-> <<>>, attempt |-> 0]

FetchFailedForMediaId ==
    [isError |-> TRUE, name |-> "Error", msg |-> "Failed to fetch image data for mediaId",
     status |-> 0, url |-> <<>>, attempt |-> 0]

(***************************************************************************)
(* What the network does with one request                                  *)
(***************************************************************************)
OkResponse(body) == [kind |-> "ok", status |-> 200, body |-> body]
HttpFailure(status) == [kind |-> "http", status |-> status, body |-> NullData]
NetworkFailure == [kind |-> "network", status |-> 0, body |-> NullData]
AbortedRequest == [kind |-> "abort", status |-> 0, body |-> NullData]
ThrownRejection == [kind |-> "thrown", status |-> 0, body |-> NullData]

\* fetchFrom(url, signal): the settled value of its promise for the n-th
\* request of a call, given what the network did
fetchFrom(url, n, outcome) ==
    CASE outcome.kind = "ok" ->
            [ok |-> TRUE, data |-> outcome.body, err |-> NoError]
      [] outcome.kind = "http" ->
            [ok |-> FALSE, data |-> NullData, err |-> HttpError(url, outcome.status, n)]
      [] outcome.kind = "network" ->
            [ok |-> FALSE, data |-> NullData, err |-> NetworkError(n)]
      [] outcome.kind = "abort" ->
            [ok |-> FALSE, data |-> NullData, err |-> AbortError(n)]
      [] OTHER ->
            [ok |-> FALSE, data |-> NullData, err |-> ThrownValue(n)]

(***************************************************************************)
(* fetchImageData (one record per invocation)                              *)
(*   pc        "idle" (free slot), "fetching" (suspended in await          *)
(*             fetchFrom), "resolved", "rejected"                          *)
(*   requested the URLs fetch() was called with, in order                  *)
(*   aborted   options.signal.aborted                                      *)
(*   from      where the resolved value came from                          *)
(*   answers   history: what the network did with each request             *)
(***************************************************************************)
UndefData == [EmptyData EXCEPT !.t = "undef"]

IdleCall ==
    [pc |-> "idle", mediaId |-> NoNumber, cdnHost |-> Undef, bypassCache |-> FALSE,
     aborted |-> FALSE, requested |-> <<>>, lastError |-> NoError,
     result |-> UndefData, from |-> "none", error |-> NoError, answers |-> <<>>]

\* variant of CandidateUrls: the legacy endpoint listed first
CandidateUrlsLegacyFirst(mediaId, cdnHost) ==
    LET host == Str(normalizeHost(cdnHost))
    IN  <<buildLegacyImageUrl(mediaId, host), buildPrimaryImageUrl(mediaId, host)>>

\* const urls = [buildPrimaryImageUrl(mediaId, host), buildLegacyImageUrl(mediaId, host)]
CandidateUrls(mediaId, cdnHost) ==
    LET host == Str(normalizeHost(cdnHost))
    IN  <<buildPrimaryImageUrl(mediaId, host), buildLegacyImageUrl(mediaId, host)>>

\* variant of fetchImageDataStart: bypassCache is ignored
fetchImageDataStartNoBypass(c, mediaId, cdnHost, bypassCache) ==
    LET base == [IdleCall EXCEPT !.mediaId = mediaId, !.cdnHost = cdnHost,
                                 !.bypassCache = bypassCache]
    IN  IF ~IsFinite(mediaId)
        THEN [base EXCEPT !.pc = "rejected", !.error = InvalidMediaId]
        ELSE LET cached == cacheGet(c, CacheKey(mediaId, cdnHost))
             IN  IF cached.t = "obj"
                 THEN [base EXCEPT !.pc = "resolved", !.result = cached, !.from = "cache"]
                 ELSE [base EXCEPT !.pc = "fetching",
                                   !.requested = <<CandidateUrls(mediaId, cdnHost)[1]>>]

\* variant of fetchImageDataStart: the identifier is tested with isNaN
\* instead of Number.isFinite
fetchImageDataStartIsNaN(c, mediaId, cdnHost, bypassCache) ==
    LET base == [IdleCall EXCEPT !.mediaId = mediaId, !.cdnHost = cdnHost,
                                 !.bypassCache = bypassCache]
    IN  IF mediaId.t \in {"nan", "undef"}
        THEN [base EXCEPT !.pc = "rejected", !.error = InvalidMediaId]
        ELSE LET cached == cacheGet(c, CacheKey(mediaId, cdnHost))
             IN  IF ~bypassCache /\ cached.t = "obj"
                 THEN [base EXCEPT !.pc = "resolved", !.result = cached, !.from = "cache"]
                 ELSE [base EXCEPT !.pc = "fetching",
                                   !.requested = <<CandidateUrls(mediaId, cdnHost)[1]>>]

\* the synchronous part of fetchImageData(mediaId, options), up to the first
\* await: validation, cache lookup, first request
fetchImageDataStart(c, mediaId, cdnHost, bypassCache) ==
    LET base == [IdleCall EXCEPT !.mediaId = mediaId, !.cdnHost = cdnHost,
                                 !.bypassCache = bypassCache]
    IN  IF ~IsFinite(mediaId)
        THEN [base EXCEPT !.pc = "rejected", !.error = InvalidMediaId]
        ELSE LET cached == cacheGet(c, CacheKey(mediaId, cdnHost))
             IN  IF ~bypassCache /\ cached.t = "obj"
                 THEN [base EXCEPT !.pc = "resolved", !.result = cached, !.from = "cache"]
                 ELSE [base EXCEPT !.pc = "fetching",
                                   !.requested = <<CandidateUrls(mediaId, cdnHost)[1]>>]

\* variant of fetchImageDataResume: the first error is kept as lastError
fetchImageDataResumeFirstError(call, r) ==
    LET n == Len(call.requested)
        urls == CandidateUrls(call.mediaId, call.cdnHost)
        kept == IF call.lastError = NoError THEN r.err ELSE call.lastError
    IN  IF r.ok
        THEN [call EXCEPT !.pc = "resolved", !.result = r.data, !.from = "network"]
        ELSE IF r.err.name = "AbortError"
        THEN [call EXCEPT !.pc = "rejected", !.error = r.err]
        ELSE IF n < Len(urls)
        THEN [call EXCEPT !.lastError = kept, !.requested = Append(@, urls[n + 1])]
        ELSE [call EXCEPT !.pc = "rejected", !.lastError = kept,
                          !.error = IF kept.isError THEN kept ELSE FetchFailedForMediaId]

\* variant of fetchImageDataResume: an AbortError is treated like any other
\* failure
fetchImageDataResumeNoAbortCheck(call, r) ==
    LET n == Len(call.requested)
        urls == CandidateUrls(call.mediaId, call.cdnHost)
    IN  IF r.ok
        THEN [call EXCEPT !.pc = "resolved", !.result = r.data, !.from = "network"]
        ELSE IF n < Len(urls)
        THEN [call EXCEPT !.lastError = r.err, !.requested = Append(@, urls[n + 1])]
        ELSE [call EXCEPT !.pc = "rejected", !.lastError = r.err,
                          !.error = IF r.err.isError THEN r.err ELSE FetchFailedForMediaId]

\* the body of the for loop after `await fetchFrom(url, options.signal)`
\* settled with r, and the statements after the loop
fetchImageDataResume(call, r) ==
    LET n == Len(call.requested)
        urls == CandidateUrls(call.mediaId, call.cdnHost)
    IN  IF r.ok
        THEN [call EXCEPT !.pc = "resolved", !.result = r.data, !.from = "network"]
        ELSE IF r.err.name = "AbortError"
        THEN [call EXCEPT !.pc = "rejected", !.error = r.err]
        ELSE IF n < Len(urls)
        THEN [call EXCEPT !.lastError = r.err, !.requested = Append(@, urls[n + 1])]
        ELSE [call EXCEPT !.pc = "rejected", !.lastError = r.err,
                          !.error = IF r.err.isError THEN r.err ELSE FetchFailedForMediaId]

\* variant of fetchImageDataCache: every 2xx body is cached
fetchImageDataCacheAlways(c, call, r) ==
    IF r.ok
    THEN cacheSet(c, CacheKey(call.mediaId, call.cdnHost), r.data)
    ELSE c

\* variant of fetchImageDataCache: a 2xx body without renderable source
\* removes the entry
fetchImageDataCacheEvicts(c, call, r) ==
    LET key == CacheKey(call.mediaId, call.cdnHost)
    IN  IF r.ok /\ imageDataHasRenderableSource(r.data)
        THEN cacheSet(c, key, r.data)
        ELSE IF r.ok
        THEN [k \in DOMAIN c \ {key} |-> c[k]]
        ELSE c

\* variant of fetchImageDataCache: an entry that is there is not replaced
fetchImageDataCacheFirstWins(c, call, r) ==
    IF r.ok /\ imageDataHasRenderableSource(r.data)
          /\ ~cacheHas(c, CacheKey(call.mediaId, call.cdnHost))
    THEN cacheSet(c, CacheKey(call.mediaId, call.cdnHost), r.data)
    ELSE c

\* the cache after the same resumption
fetchImageDataCache(c, call, r) ==
    IF r.ok /\ imageDataHasRenderableSource(r.data)
    THEN cacheSet(c, CacheKey(call.mediaId, call.cdnHost), r.data)
    ELSE c


(***************************************************************************)
(* Sample inputs                                                           *)
(***************************************************************************)
\* { variants_data: { variants: { WEBP: { sm: '/a.webp' } }, status: 'complete' } }
ReadyData ==
    [EmptyData EXCEPT !.variants_data =
        VariantsData(Variants(NoSizes,
                              Sizes(Str(<<"/", "a", ".", "webp">>), Undef, Undef, Undef),
                              NoSizes),
                     Str(<<"c", "o", "m", "p", "l", "e", "t", "e">>))]

\* { img_url: '/img/1.jpg' }
DirectData == [EmptyData EXCEPT !.img_url = Str(<<"/", "img", "/", "1", ".", "jpg">>)]

\* { variants_data: { variants: { WEBP: { sm: '', md: ' ', lg: '', full: '' } } }, img_url: null }
PendingData ==
    [EmptyData EXCEPT !.variants_data =
        VariantsData(Variants(NoSizes,
                              Sizes(Str(<<>>), Str(<<" ">>), Str(<<>>), Str(<<>>)),
                              NoSizes),
                     Undef),
                      !.img_url = Null]

\* { variants_status: 'FAILED' }
FailedData == [EmptyData EXCEPT !.variants_status = Str(<<"F", "A", "I", "L", "E", "D">>)]

\* { variants_data: { variants: null, status: 'Error' }, variants_status: 'complete' }
ErrorData ==
    [EmptyData EXCEPT !.variants_data = VariantsData(NullVariants, Str(<<"E", "r", "r", "o", "r">>)),
                      !.variants_status = Str(<<"c", "o", "m", "p", "l", "e", "t", "e">>)]

\* mediaId arguments of direct fetchImageData callers
ApiMediaIds == {Num(1), NaN, PosInfinity, NegInfinity, NoNumber}

\* options.cdnHost: absent, the default host with a trailing slash, another host
ApiCdnHosts ==
    {Undef, Str(DEFAULT_CDN_HOST \o <<"/">>), Str(<<"https:", "/", "/", "img", ".", "test">>)}

\* JSON bodies of 2xx responses
ApiBodies == {ReadyData, DirectData, PendingData}

\* status codes of non-2xx responses
FailureStatuses == {404, 500}

\* what the network can do with a request whose signal is not aborted
Outcomes(bodies) ==
    {OkResponse(b) : b \in bodies}
        \cup {HttpFailure(st) : st \in FailureStatuses}
        \cup {NetworkFailure, ThrownRejection}

(***************************************************************************)
(* LegacyImg: one component instance                                       *)
(*   mediaId, cdnHost, onImageData   the props of the last render          *)
(*   data, retryCount                the useState values, updates applied  *)
(*   rData, rRetryCount              the values the last render saw        *)
(*   dataFor, rDataFor               history: the cache key (host and      *)
(*                                   identifier) of the invocation that    *)
(*                                   delivered data, and rData; <<>> for   *)
(*                                   null                                  *)
(*   controller                      slot of the fetch effect's invocation *)
(*   timer                           a setTimeout of the poll effect is    *)
(*                                   pending                               *)
(*   polling                         shouldPollForVariants at the last     *)
(*                                   render (the poll effect's dependency) *)
(*   timerFor                        the mediaId prop of the render whose  *)
(*                                   poll effect set the pending timer     *)
(*   loading                         the loading prop of the last render   *)
(*   eager                           the eager prop of the last render is  *)
(*                                   true (it is part of `rest`)           *)
(*   env                             what the host provides: "browser",    *)
(*                                   "noIO" (a window without              *)
(*                                   IntersectionObserver), "noWindow"     *)
(*   isInView, rIsInView             the useState value and the value the  *)
(*                                   last render saw                       *)
(*   observers                       connected IntersectionObservers       *)
(***************************************************************************)
MAX_VARIANT_REFRESH_ATTEMPTS == 5

Unmounted ==
    [mounted |-> FALSE, phase |-> "new", mediaId |-> NoNumber, cdnHost |-> Undef,
     onImageData |-> "none", eager |-> FALSE, data |-> NullData, retryCount |-> 0,
     rData |-> NullData, rRetryCount |-> 0, dataFor |-> <<>>, rDataFor |-> <<>>,
     controller |-> 0,
     timer |-> FALSE, polling |-> FALSE, timerFor |-> NoNumber,
     loading |-> Undef, env |-> "browser", isInView |-> FALSE,
     rIsInView |-> FALSE, observers |-> 0]

\* const loadingAttr = loading ?? 'lazy'
loadingAttr(loading) == Coalesce(loading, Str(<<"lazy">>))

\* variant of observerUnavailable: the capability is never found missing
observerUnavailableNever(env) == FALSE

\* typeof window === 'undefined' ||
\* typeof window.IntersectionObserver === 'undefined'
observerUnavailable(env) == env # "browser"

\* variant of initialIsInView: the state starts as not-in-view
initialIsInViewNever(mediaId, loading) == FALSE

\* useState(() => !hasMediaId || loadingAttr !== 'lazy')
initialIsInView(mediaId, loading) ==
    ~IsFinite(mediaId) \/ loadingAttr(loading) # Str(<<"lazy">>)

\* (data?.variants_data?.status ?? data?.variants_status) ?? '', lower-cased
\* when it is a string
variantsStatus(data) ==
    LET nested == IF data.t = "obj" /\ data.variants_data.t = "obj"
                  THEN data.variants_data.status ELSE Undef
        flat == IF data.t = "obj" THEN data.variants_status ELSE Undef
        status == Coalesce(Coalesce(nested, flat), Str(<<>>))
    IN  IF IsString(status) THEN ToLowerCase(status.s) ELSE <<>>

variantsFailed(data) ==
    \/ variantsStatus(data) = <<"f", "a", "i", "l", "e", "d">>
    \/ variantsStatus(data) = <<"e", "r", "r", "o", "r">>

hasVariantEntries(data) == imageVariantsHaveRenderableSource(VariantsOf(data))

\* variant of shouldPollForVariants: the failed status is not looked at
shouldPollForVariantsIgnoringStatus(mediaId, data, retryCount) ==
    /\ IsFinite(mediaId)
    /\ data.t = "obj"
    /\ ~hasVariantEntries(data)
    /\ retryCount < MAX_VARIANT_REFRESH_ATTEMPTS

shouldPollForVariants(mediaId, data, retryCount) ==
    /\ IsFinite(mediaId)
    /\ data.t = "obj"
    /\ ~variantsFailed(data)
    /\ ~hasVariantEntries(data)
    /\ retryCount < MAX_VARIANT_REFRESH_ATTEMPTS

(***************************************************************************)
(* LegacyImg: the picture memo (the resolver) and the rendered element     *)
(***************************************************************************)
\* Boolean(x) of a string, a number, an object, null or undefined
Truthy(x) ==
    CASE x.t = "str" -> x.s # <<>>
      [] x.t = "num" -> x.n # 0
      [] x.t = "obj" -> TRUE
      [] OTHER -> FALSE

\* typeof value === 'string' && value.trim().length > 0
isUrlString(value) == IsString(value) /\ Len(Trim(value.s)) > 0

\* /^https?:\/\//i.test(url)
HasHttpScheme(s) ==
    /\ Len(s) >= 3
    /\ LowerTok(s[1]) \in {"http:", "https:"}
    /\ s[2] = "/"
    /\ s[3] = "/"

\* url.startsWith('//')
StartsWithTwoSlashes(s) == Len(s) >= 2 /\ s[1] = "/" /\ s[2] = "/"

\* (cdnHost ?? DEFAULT_CDN_HOST).replace(/\/$/, '')
cdnOrigin(cdnHost) == StripTrailingSlash(Coalesce(cdnHost, Str(DEFAULT_CDN_HOST)).s)

\* variant of ensureAbsolute: a protocol-relative URL is taken for a
\* root-relative one
ensureAbsoluteNoProtocolRelative(url, origin) ==
    IF ~isUrlString(url) THEN Undef
    ELSE IF HasHttpScheme(url.s) \/ Head(url.s) = "data:" THEN url
    ELSE IF Head(url.s) = "/" THEN Str(origin \o url.s)
    ELSE Str(origin \o <<"/">> \o url.s)

ensureAbsolute(url, origin) ==
    IF ~isUrlString(url) THEN Undef
    ELSE IF HasHttpScheme(url.s) \/ Head(url.s) = "data:" THEN url
    ELSE IF StartsWithTwoSlashes(url.s) THEN Str(<<"https:">> \o url.s)
    ELSE IF Head(url.s) = "/" THEN Str(origin \o url.s)
    ELSE Str(origin \o <<"/">> \o url.s)

\* ensureAbsolute(typeof candidate === 'string' ? candidate : undefined)
normalizeCandidate(candidate, origin) ==
    ensureAbsolute(IF IsString(candidate) THEN candidate ELSE Undef, origin)

\* sizes.md || sizes.lg || sizes.sm || sizes.full ||
\* Object.values(sizes).find(Boolean): the only other value of an entry is
\* its metadata object
pickBest(sizes) ==
    IF sizes.t # "obj" THEN Undef
    ELSE IF Truthy(sizes.md) THEN sizes.md
    ELSE IF Truthy(sizes.lg) THEN sizes.lg
    ELSE IF Truthy(sizes.sm) THEN sizes.sm
    ELSE IF Truthy(sizes.full) THEN sizes.full
    ELSE IF Truthy(sizes.metadata) THEN sizes.metadata
    ELSE Undef

DEFAULT_WIDTHS == [t |-> "obj", sm |-> Num(640), md |-> Num(1024), lg |-> Num(1536),
                   full |-> Num(2560)]

NoWidthMap == [t |-> "null", sm |-> NoNumber, md |-> NoNumber, lg |-> NoNumber,
               full |-> NoNumber]

\* widthMapFromMetadata(v): v is the metadata of a variant entry
widthMapFromMetadata(v) ==
    IF v.t # "obj" \/ v.widths.t # "obj" THEN NoWidthMap
    ELSE LET w == v.widths
         IN  [t |-> "obj",
              sm |-> Coalesce(Coalesce(w.small, w.sm), DEFAULT_WIDTHS.sm),
              md |-> Coalesce(Coalesce(w.medium, w.md), DEFAULT_WIDTHS.md),
              lg |-> Coalesce(Coalesce(w.large, w.lg), DEFAULT_WIDTHS.lg),
              full |-> Coalesce(Coalesce(w.full_size, w.full), DEFAULT_WIDTHS.full)]

\* the entries of a sequence of JavaScript values that satisfy isUrlString
RECURSIVE FilterUrlStrings(_)
FilterUrlStrings(seq) ==
    IF seq = <<>> THEN <<>>
    ELSE IF isUrlString(Head(seq)) THEN <<Head(seq)>> \o FilterUrlStrings(Tail(seq))
    ELSE FilterUrlStrings(Tail(seq))

\* entries.join(', ')
RECURSIVE JoinEntries(_)
JoinEntries(entries) ==
    IF entries = <<>> THEN <<>>
    ELSE IF Len(entries) = 1 THEN Head(entries)
    ELSE Head(entries) \o <<",", " ">> \o JoinEntries(Tail(entries))

\* push(url, width): the entry `${absolute} ${width}w` or nothing
SrcSetEntry(url, width, origin) ==
    LET absolute == normalizeCandidate(url, origin)
    IN  IF IsString(absolute) /\ Truthy(width)
        THEN <<absolute.s \o <<" ", ToString(width.n), "w">>>>
        ELSE <<>>

\* variant of toSrcSet: a format without entry yields the empty string
toSrcSetEmptyString(sizes, widths, origin) ==
    IF sizes.t # "obj" THEN Undef
    ELSE LET entries == SrcSetEntry(sizes.sm, widths.sm, origin)
                            \o SrcSetEntry(sizes.md, widths.md, origin)
                            \o SrcSetEntry(sizes.lg, widths.lg, origin)
                            \o SrcSetEntry(sizes.full, widths.full, origin)
         IN  Str(JoinEntries(entries))

toSrcSet(sizes, widths, origin) ==
    IF sizes.t # "obj" THEN Undef
    ELSE LET entries == SrcSetEntry(sizes.sm, widths.sm, origin)
                            \o SrcSetEntry(sizes.md, widths.md, origin)
                            \o SrcSetEntry(sizes.lg, widths.lg, origin)
                            \o SrcSetEntry(sizes.full, widths.full, origin)
         IN  IF entries # <<>> THEN Str(JoinEntries(entries)) ELSE Undef

\* variant of variantCandidates: the JPEG candidates come before the WEBP
\* candidates
variantCandidatesJpegFirst(webp, jpeg, avif, origin) ==
    LET raw == <<pickBest(jpeg), pickBest(webp), pickBest(avif),
                 jpeg.sm, jpeg.md, jpeg.lg, jpeg.full,
                 webp.sm, webp.md, webp.lg, webp.full,
                 avif.sm, avif.md, avif.lg, avif.full>>
    IN  FilterUrlStrings([i \in 1..Len(raw) |-> normalizeCandidate(raw[i], origin)])

\* the candidates of the fallback URL, normalised and filtered
variantCandidates(webp, jpeg, avif, origin) ==
    LET raw == <<pickBest(webp), pickBest(jpeg), pickBest(avif),
                 webp.sm, webp.md, webp.lg, webp.full,
                 jpeg.sm, jpeg.md, jpeg.lg, jpeg.full,
                 avif.sm, avif.md, avif.lg, avif.full>>
    IN  FilterUrlStrings([i \in 1..Len(raw) |-> normalizeCandidate(raw[i], origin)])

directCandidates(data, origin) ==
    LET raw == <<data.img_url, data.file_data_url, data.file_data_thumbnail_url,
                 data.img_src, data.med_src, data.thumb_src, data.low_res_thumb>>
    IN  FilterUrlStrings([i \in 1..Len(raw) |->
            IF isUrlString(raw[i]) THEN normalizeCandidate(raw[i], origin) ELSE Undef])

fallbackCandidates(data, origin) ==
    IF Truthy(data.fallback_url)
    THEN FilterUrlStrings(<<normalizeCandidate(data.fallback_url, origin)>>)
    ELSE <<>>

NoPicture ==
    [t |-> "null", webp |-> NoSizes, avif |-> NoSizes, jpeg |-> NoSizes,
     fallback |-> Undef, widths |-> DEFAULT_WIDTHS, hasVariantSource |-> FALSE]

\* the value of the picture memo for descriptor `data` and origin `origin`
picture(data, origin) ==
    IF data.t # "obj" THEN NoPicture
    ELSE LET v == VariantsOf(data)
             fromWebp == widthMapFromMetadata(v.WEBP.metadata)
             fromJpeg == widthMapFromMetadata(v.JPEG.metadata)
             widths == IF fromWebp.t = "obj" THEN fromWebp
                       ELSE IF fromJpeg.t = "obj" THEN fromJpeg
                       ELSE DEFAULT_WIDTHS
             variant == variantCandidates(v.WEBP, v.JPEG, v.AVIF, origin)
             all == variant \o directCandidates(data, origin)
                        \o fallbackCandidates(data, origin)
         IN  IF all = <<>> THEN NoPicture
             ELSE [t |-> "obj", webp |-> v.WEBP, avif |-> v.AVIF, jpeg |-> v.JPEG,
                   fallback |-> all[1], widths |-> widths,
                   hasVariantSource |-> Len(variant) > 0]

\* href.lastIndexOf('.'): the position counted from 1, 0 when there is none
RECURSIVE LastIndexOf(_, _)
LastIndexOf(s, tok) ==
    IF s = <<>> THEN 0
    ELSE IF s[Len(s)] = tok THEN Len(s)
    ELSE LastIndexOf(SubSeq(s, 1, Len(s) - 1), tok)

\* the dataFilename memo
dataFilename(data, pic) ==
    LET base == IF data.t = "obj" /\ data.meta.t = "obj" /\ data.meta.content_manifest.t = "obj"
                THEN data.meta.content_manifest.optimized_filename ELSE Undef
        href == IF pic.t = "obj" THEN pic.fallback ELSE Undef
    IN  IF ~Truthy(base) THEN Undef
        ELSE IF ~Truthy(href) THEN Undef
        ELSE LET dot == LastIndexOf(href.s, ".")
                 ext == IF dot > 0
                        THEN ToLowerCase(SubSeq(href.s, dot + 1, Len(href.s)))
                        ELSE <<"jpg">>
             IN  Str(base.s \o <<".">> \o ext)

\* data?.meta?.sizing?.[name] ?? data?.variants_data?.metadata?.[name]
\* ?? undefined (the widthAttr and heightAttr memos)
dimensionAttr(data, name) ==
    LET sizing == IF data.t = "obj" /\ data.meta.t = "obj" /\ data.meta.sizing.t = "obj"
                  THEN data.meta.sizing[name] ELSE NoNumber
        declared == IF data.t = "obj" /\ data.variants_data.t = "obj"
                        /\ data.variants_data.metadata.t = "obj"
                    THEN data.variants_data.metadata[name] ELSE NoNumber
    IN  Coalesce(Coalesce(sizing, declared), NoNumber)

DEFAULT_SIZES ==
    <<"(max-width:640px)", " ", "640px", ",", " ", "(max-width:1024px)", " ", "1024px",
      ",", " ", "1536px">>

\* an attribute followed by {...rest}: a key of rest replaces it
Spread(attr, explicit) == IF explicit.t = "absent" THEN attr ELSE explicit

\* rest.width, rest.height: undefined when rest has no such key
RestValue(explicit) == IF explicit.t = "absent" THEN NoNumber ELSE explicit

\* <img .../> alone, or <picture> with its <source> elements and its <img>
Element(tag, sources, img) == [tag |-> tag, sources |-> sources, img |-> img]

ImgAttributes(src, srcSet, sizes, loading, decoding, width, height, filename) ==
    [src |-> src, srcSet |-> srcSet, sizes |-> sizes, loading |-> loading,
     decoding |-> decoding, width |-> width, height |-> height, dataFilename |-> filename]

\* variant of LegacyImgElement: the visibility state is not looked at
LegacyImgElementAlwaysInView(p, data, isInView) ==
    LET origin == cdnOrigin(p.cdnHost)
        pic == picture(data, origin)
        loadingHint == loadingAttr(p.loading)
        decodingHint == Coalesce(p.decoding, Str(<<"async">>))
        width == dimensionAttr(data, "width")
        height == dimensionAttr(data, "height")
        filename == dataFilename(data, pic)
        sizesAttr == Coalesce(p.sizes, Str(DEFAULT_SIZES))
        webpSet == toSrcSet(pic.webp, pic.widths, origin)
        avifSet == toSrcSet(pic.avif, pic.widths, origin)
        jpegSet == toSrcSet(pic.jpeg, pic.widths, origin)
        inline == Truthy(jpegSet) /\ ~Truthy(webpSet) /\ ~Truthy(avifSet)
    IN  IF ~IsFinite(p.mediaId)
        THEN Element("img", <<>>,
                ImgAttributes(p.src, Undef, Undef, loadingHint, decodingHint,
                    Spread(RestValue(p.width), p.width),
                    Spread(RestValue(p.height), p.height), Undef))
        ELSE IF data.t # "obj" \/ pic.t # "obj"
        THEN Element("img", <<>>,
                ImgAttributes(Str(buildPlaceholderImageUrl(p.mediaId, p.cdnHost)), Undef, Undef,
                    loadingHint, decodingHint,
                    Spread(Coalesce(RestValue(p.width), width), p.width),
                    Spread(Coalesce(RestValue(p.height), height), p.height), Undef))
        ELSE IF Truthy(webpSet) \/ Truthy(avifSet) \/ Truthy(jpegSet)
        THEN Element("picture",
                (IF Truthy(avifSet)
                 THEN <<[type |-> "image/avif", srcSet |-> avifSet, sizes |-> sizesAttr]>>
                 ELSE <<>>)
                \o (IF Truthy(webpSet)
                    THEN <<[type |-> "image/webp", srcSet |-> webpSet, sizes |-> sizesAttr]>>
                    ELSE <<>>),
                ImgAttributes(pic.fallback,
                    IF inline THEN jpegSet ELSE Undef,
                    IF inline THEN sizesAttr ELSE Undef,
                    loadingHint, decodingHint,
                    Spread(width, p.width), Spread(height, p.height), filename))
        ELSE Element("img", <<>>,
                ImgAttributes(pic.fallback, Undef, Undef, loadingHint, decodingHint,
                    Spread(width, p.width), Spread(height, p.height), filename))

\* the element one render of LegacyImg returns for props p, the state value
\* data and the state value isInView.  Of the props that {...rest} carries
\* only width and height are followed.
LegacyImgElement(p, data, isInView) ==
    LET origin == cdnOrigin(p.cdnHost)
        pic == picture(data, origin)
        loadingHint == loadingAttr(p.loading)
        decodingHint == Coalesce(p.decoding, Str(<<"async">>))
        width == dimensionAttr(data, "width")
        height == dimensionAttr(data, "height")
        filename == dataFilename(data, pic)
        sizesAttr == Coalesce(p.sizes, Str(DEFAULT_SIZES))
        webpSet == toSrcSet(pic.webp, pic.widths, origin)
        avifSet == toSrcSet(pic.avif, pic.widths, origin)
        jpegSet == toSrcSet(pic.jpeg, pic.widths, origin)
        inline == Truthy(jpegSet) /\ ~Truthy(webpSet) /\ ~Truthy(avifSet)
    IN  IF ~IsFinite(p.mediaId)
        THEN Element("img", <<>>,
                ImgAttributes(p.src, Undef, Undef, loadingHint, decodingHint,
                    Spread(RestValue(p.width), p.width),
                    Spread(RestValue(p.height), p.height), Undef))
        ELSE IF data.t # "obj" \/ pic.t # "obj" \/ ~isInView
        THEN Element("img", <<>>,
                ImgAttributes(Str(buildPlaceholderImageUrl(p.mediaId, p.cdnHost)), Undef, Undef,
                    loadingHint, decodingHint,
                    Spread(Coalesce(RestValue(p.width), width), p.width),
                    Spread(Coalesce(RestValue(p.height), height), p.height), Undef))
        ELSE IF Truthy(webpSet) \/ Truthy(avifSet) \/ Truthy(jpegSet)
        THEN Element("picture",
                (IF Truthy(avifSet)
                 THEN <<[type |-> "image/avif", srcSet |-> avifSet, sizes |-> sizesAttr]>>
                 ELSE <<>>)
                \o (IF Truthy(webpSet)
                    THEN <<[type |-> "image/webp", srcSet |-> webpSet, sizes |-> sizesAttr]>>
                    ELSE <<>>),
                ImgAttributes(pic.fallback,
                    IF inline THEN jpegSet ELSE Undef,
                    IF inline THEN sizesAttr ELSE Undef,
                    loadingHint, decodingHint,
                    Spread(width, p.width), Spread(height, p.height), filename))
        ELSE Element("img", <<>>,
                ImgAttributes(pic.fallback, Undef, Undef, loadingHint, decodingHint,
                    Spread(width, p.width), Spread(height, p.height), filename))

(***************************************************************************)
(* The Img module: module-level state, host globals, the Img instance      *)
(*   console                  typeof console !== 'undefined' &&            *)
(*                            console.warn                                 *)
(*   deprecatedMediaWarnings  the module-level Set<number>                 *)
(*   warnings                 the identifiers of the deprecation warnings  *)
(*                            written to the console, in order             *)
(*   fetchWarnings            the 'Image data fetch failed:' warnings      *)
(*                            LegacyImg has written to the console, in     *)
(*                            order: for each, the identifier of the       *)
(*                            invocation whose error it reports            *)
(*   rendered                 the mediaId props Img has been rendered with *)
(*   displayName              Img.displayName                              *)
(*   sources                  the <source> children of the document's      *)
(*                            <picture>, in document order: for each its   *)
(*                            srcset and data-srcset attributes (null when *)
(*                            the attribute is absent)                     *)
(*   frames                   the callbacks given to requestAnimationFrame *)
(*                            that have not run, in order: the source and  *)
(*                            the srcset each closure holds                *)
(*   resets, changes          history: the calls of                        *)
(*                            resetResponsivePictureState and the changes  *)
(*                            of a srcset by other code so far             *)
(*   defaultOptixFlowConfig   the module-level variable                    *)
(*   PageSpeedImgDefaults, OpensiteImgDefaults, PAGE_SPEED_IMG_DEFAULTS    *)
(*                            globalThis.X?.optixFlowConfig                *)
(*   branch                   the element ImgBase returned last            *)
(*   props                    the props of the last ImgBase render         *)
(*   childPending             React has yet to render the ModernImg        *)
(*                            element that ImgBase returned                *)
(*   modern                   the ModernImg instance: the useMemo entry of *)
(*                            resolvedOptixConfig (dependency and value)   *)
(***************************************************************************)
\* an OptixFlowConfig object
Config(apiKey, compressionLevel) ==
    [t |-> "obj", apiKey |-> apiKey, compressionLevel |-> compressionLevel]

NoProps == [mediaId |-> NoNumber, src |-> Undef, optixFlowConfig |-> Undef, alt |-> Undef]

NoModernImg == [mounted |-> FALSE, dep |-> Undef, resolvedOptixConfig |-> Undef]

\* Img.displayName = 'PageSpeedImg'
displayName == "PageSpeedImg"

\* a <source> element
Source(srcset, dataSrcset) == [srcset |-> srcset, dataSrcset |-> dataSrcset]

InitialPage(console) ==
    [console |-> console,
     sources |-> <<>>,
     frames |-> <<>>,
     resets |-> 0,
     changes |-> 0,
     displayName |-> displayName,
     deprecatedMediaWarnings |-> {},
     warnings |-> <<>>,
     fetchWarnings |-> <<>>,
     rendered |-> {},
     defaultOptixFlowConfig |-> Undef,
     PageSpeedImgDefaults |-> Undef,
     OpensiteImgDefaults |-> Undef,
     PAGE_SPEED_IMG_DEFAULTS |-> Undef,
     branch |-> "none",
     props |-> NoProps,
     childPending |-> FALSE,
     modern |-> NoModernImg]

\* JavaScript a || b: a when it is truthy (an object), else b
Or(a, b) == IF a.t = "obj" THEN a ELSE b

readGlobalOptixFlowConfig(pg) ==
    Or(Or(pg.PageSpeedImgDefaults, pg.OpensiteImgDefaults), pg.PAGE_SPEED_IMG_DEFAULTS)

\* config ?? defaultOptixFlowConfig ?? readGlobalOptixFlowConfig()
resolveOptixFlowConfig(pg, config) ==
    Coalesce(Coalesce(config, pg.defaultOptixFlowConfig), readGlobalOptixFlowConfig(pg))

\* variant of warnDeprecatedMediaId: the identifier is not remembered
warnDeprecatedMediaIdForgetful(pg, mediaId) ==
    IF ~IsFinite(mediaId) THEN pg
    ELSE IF mediaId \in pg.deprecatedMediaWarnings THEN pg
    ELSE [pg EXCEPT !.warnings = IF pg.console THEN Append(@, mediaId) ELSE @]

warnDeprecatedMediaId(pg, mediaId) ==
    IF ~IsFinite(mediaId) THEN pg
    ELSE IF mediaId \in pg.deprecatedMediaWarnings THEN pg
    ELSE [pg EXCEPT !.deprecatedMediaWarnings = @ \cup {mediaId},
                    !.warnings = IF pg.console THEN Append(@, mediaId) ELSE @]

\* a prop that is not among the props of the element (no key in `rest`)
Absent == [t |-> "absent", s |-> <<>>]

\* a caller that has not called yet: its descriptor, URL string, its props
\* cdnHost, mediaId, width, height, loading and decoding, and its
\* visibility state
NoProbe ==
    [data |-> NullData, url |-> Undef, cdnHost |-> Undef, mediaId |-> NoNumber,
     width |-> Absent, height |-> Absent, loading |-> Undef, decoding |-> Undef,
     isInView |-> TRUE, answers |-> <<>>]

(***************************************************************************)
(* Initial state: empty cache, no invocation, no component                 *)
(***************************************************************************)
Init ==
    /\ cache = <<>>
    /\ calls = [s \in Slots |-> IdleCall]
    /\ comp = Unmounted
    /\ page = InitialPage(TRUE)
    /\ probe = NoProbe

\* the free slot a new invocation takes
FreeSlot(s, slots) ==
    /\ s \in slots
    /\ calls[s].pc = "idle"
    /\ \A t \in slots : t < s => calls[t].pc # "idle"

\* invocation `call` after the network did `outcome` with its pending request
AfterOutcome(call, outcome) ==
    LET n == Len(call.requested)
        r == fetchFrom(call.requested[n], n, outcome)
    IN  [fetchImageDataResume(call, r) EXCEPT !.answers = Append(@, outcome)]

\* the cache after the same step
CacheAfterOutcome(c, call, outcome) ==
    LET n == Len(call.requested)
    IN  fetchImageDataCache(c, call, fetchFrom(call.requested[n], n, outcome))

(***************************************************************************)
(* Actions of direct callers of fetchImageData                             *)
(***************************************************************************)
\* a caller invokes fetchImageData(mediaId, { cdnHost, signal, bypassCache })
ApiCall(s, mediaId, cdnHost, bypassCache) ==
    /\ FreeSlot(s, ApiSlots)
    /\ calls' = [calls EXCEPT ![s] = fetchImageDataStart(cache, mediaId, cdnHost, bypassCache)]
    /\ UNCHANGED <<cache, comp, page, probe>>

\* the network settles the pending request of invocation s
NetworkRespond(s, outcome) ==
    /\ calls[s].pc = "fetching"
    /\ calls' = [calls EXCEPT ![s] = AfterOutcome(calls[s], outcome)]
    /\ cache' = CacheAfterOutcome(cache, calls[s], outcome)
    /\ UNCHANGED <<comp, page, probe>>

\* controller.abort() on the signal of an invocation: a pending request
\* rejects with an AbortError and the invocation resumes in its catch branch;
\* an invocation that has settled, or has gone, is left as it is
abort(call) ==
    IF call.pc = "idle" \/ call.aborted THEN call
    ELSE IF call.pc = "fetching"
    THEN AfterOutcome([call EXCEPT !.aborted = TRUE], AbortedRequest)
    ELSE [call EXCEPT !.aborted = TRUE]

\* a direct caller aborts the signal of its pending invocation
ApiAbort(s) ==
    /\ calls[s].pc = "fetching"
    /\ calls' = [calls EXCEPT ![s] = abort(calls[s])]
    /\ UNCHANGED <<cache, comp, page, probe>>

\* the caller has consumed the settled promise
ApiReturn(s) ==
    /\ calls[s].pc \in {"resolved", "rejected"}
    /\ calls' = [calls EXCEPT ![s] = IdleCall]
    /\ UNCHANGED <<cache, comp, page, probe>>

Next ==
    \/ \E s \in ApiSlots, m \in ApiMediaIds, h \in ApiCdnHosts, b \in BOOLEAN :
            ApiCall(s, m, h, b)
    \/ \E s \in ApiSlots, o \in Outcomes(ApiBodies) : NetworkRespond(s, o)
    \/ \E s \in ApiSlots : ApiAbort(s)
    \/ \E s \in ApiSlots : ApiReturn(s)

Spec == Init /\ [][Next]_vars


(***************************************************************************)
(* LegacyImg: render and effects                                           *)
(***************************************************************************)
\* props of the component
CompMediaIds == {Num(1), Num(2)}
CompCdnHosts == {Undef}
CompCallbacks == {"f", "g"}
CompLoadings == {Undef, Str(<<"eager">>)}
CompEagers == {FALSE}
CompProps ==
    [mediaId : CompMediaIds, cdnHost : CompCdnHosts, onImageData : CompCallbacks,
     loading : CompLoadings, eager : CompEagers]

\* typeof window, typeof window.IntersectionObserver
Envs == {"browser", "noIO", "noWindow"}

\* the props of the last render
PropsOf(c) ==
    [mediaId |-> c.mediaId, cdnHost |-> c.cdnHost, onImageData |-> c.onImageData,
     loading |-> c.loading, eager |-> c.eager]

\* JSON bodies the endpoints answer the component with
CompBodies == {ReadyData, DirectData, PendingData, FailedData, ErrorData}

CompOutcomes == {OkResponse(b) : b \in CompBodies} \cup {HttpFailure(500)}

\* .then((d) => { setData(d); onImageData?.(d); }) for a resolved invocation;
\* setData on an unmounted component changes nothing
thenCallback(c, call) ==
    IF c.mounted
    THEN [c EXCEPT !.data = call.result,
                   !.dataFor = CacheKey(call.mediaId, call.cdnHost)]
    ELSE c

\* variant of catchCallback: every rejection is logged
catchCallbackLogsAbort(pg, call) ==
    [pg EXCEPT !.fetchWarnings = Append(@, call.mediaId)]

\* .catch((err) => { if (err?.name !== 'AbortError') console.warn(...) })
catchCallback(pg, call) ==
    IF call.error.name # "AbortError"
    THEN [pg EXCEPT !.fetchWarnings = Append(@, call.mediaId)]
    ELSE pg

\* the component after the promise callbacks of an invocation that has
\* settled: the then callback, or the catch callback, which only logs
settled(c, call) ==
    IF call.pc = "resolved" THEN thenCallback(c, call) ELSE c

\* the console after the same callbacks
logged(pg, call) ==
    IF call.pc = "rejected" THEN catchCallback(pg, call) ELSE pg

\* the console after the cleanup of the fetch effect: the catch callback of
\* the invocation it aborts runs
loggedAbort(pg, controller) ==
    IF controller # 0 THEN logged(pg, abort(calls[controller])) ELSE pg

\* the slot of an invocation once its promise callbacks have run
consumed(call) ==
    IF call.pc \in {"resolved", "rejected"} THEN IdleCall ELSE call

\* cleanup of the fetch effect, () => controller.abort(): a pending request
\* rejects with an AbortError, which the catch callback ignores; an
\* invocation that resolved from the cache keeps its then callback, which
\* does not look at the signal
abortFetch(call) ==
    LET aborted == abort(call)
    IN  IF aborted.pc = "rejected" THEN consumed(aborted) ELSE aborted

\* One render of LegacyImg with props p followed by the commit of its
\* effects.  `first` is the mount.  The render sees the state values data and
\* retryCount of `prev`; an effect runs when one of its dependencies differs
\* from the previous render, after the cleanups of the effects that re-run.
\* s is the slot the fetch effect's invocation takes when the effect runs.
Commit(first, prev, p, s) ==
    LET resetRuns == first \/ p.mediaId # prev.mediaId \/ p.cdnHost # prev.cdnHost
        fetchRuns == \/ resetRuns
                     \/ p.onImageData # prev.onImageData
                     \/ prev.retryCount # prev.rRetryCount
        poll == shouldPollForVariants(p.mediaId, prev.data, prev.retryCount)
        pollRuns == first \/ poll # prev.polling
        \* the visibility effects
        lazy == IsFinite(p.mediaId) /\ loadingAttr(p.loading) = Str(<<"lazy">>)
        view == IF first THEN initialIsInView(p.mediaId, p.loading) ELSE prev.isInView
        loadingChanged == loadingAttr(p.loading) # loadingAttr(prev.loading)
        syncRuns == first \/ p.mediaId # prev.mediaId \/ loadingChanged
        observeRuns == first \/ loadingChanged \/ view # prev.rIsInView
        \* setIsInView(true) / setIsInView(false) of the first effect
        synced == IF syncRuns THEN ~lazy ELSE view
        failOpen == observeRuns /\ lazy /\ ~view /\ observerUnavailable(prev.env)
        observes == observeRuns /\ lazy /\ ~view /\ ~observerUnavailable(prev.env)
        \* cleanup of the observer effect: observer.disconnect()
        disconnected == IF observeRuns /\ prev.observers > 0
                        THEN prev.observers - 1 ELSE prev.observers
        \* cleanup of the fetch effect: controller.abort()
        cleaned == IF fetchRuns /\ prev.controller # 0
                   THEN [calls EXCEPT ![prev.controller] = abortFetch(@)]
                   ELSE calls
    IN  /\ fetchRuns => /\ s \in FetchSlots
                        /\ cleaned[s].pc = "idle"
                        /\ \A t \in FetchSlots : t < s => cleaned[t].pc # "idle"
        /\ ~fetchRuns => s = 0
        /\ calls' = IF fetchRuns
                    THEN [cleaned EXCEPT ![s] =
                            fetchImageDataStart(cache, p.mediaId, p.cdnHost,
                                                prev.retryCount > 0)]
                    ELSE cleaned
        /\ comp' = [prev EXCEPT
                !.mounted = TRUE,
                !.phase = "mounted",
                !.mediaId = p.mediaId,
                !.cdnHost = p.cdnHost,
                !.onImageData = p.onImageData,
                !.eager = p.eager,
                !.rData = prev.data,
                !.rDataFor = prev.dataFor,
                !.rRetryCount = prev.retryCount,
                \* reset effect: setData(null); setRetryCount(0)
                !.data = IF resetRuns THEN NullData ELSE prev.data,
                !.dataFor = IF resetRuns THEN <<>> ELSE prev.dataFor,
                !.retryCount = IF resetRuns THEN 0 ELSE prev.retryCount,
                !.controller = IF fetchRuns THEN s ELSE prev.controller,
                \* poll effect: clearTimeout of the previous run, setTimeout
                !.timer = IF pollRuns THEN poll /\ prev.env # "noWindow"
                          ELSE prev.timer,
                !.timerFor = IF pollRuns
                             THEN (IF poll /\ prev.env # "noWindow"
                                   THEN p.mediaId ELSE NoNumber)
                             ELSE prev.timerFor,
                !.polling = poll,
                !.loading = p.loading,
                !.rIsInView = view,
                !.isInView = IF failOpen THEN TRUE ELSE synced,
                !.observers = IF observes THEN disconnected + 1 ELSE disconnected]
        /\ page' = IF fetchRuns THEN loggedAbort(page, prev.controller) ELSE page
        /\ Len(page'.fetchWarnings) <= MaxWarnings
        /\ UNCHANGED <<cache, probe>>

\* the component is mounted with props p in a host e
Mount(p, s, e) ==
    /\ comp.phase = "new"
    /\ Commit(TRUE, [comp EXCEPT !.env = e], p, s)

\* the parent renders the component with other props
SetProps(p, s) ==
    /\ comp.mounted
    /\ p # PropsOf(comp)
    /\ Commit(FALSE, comp, p, s)

\* a state update is pending: React renders the component again
Rerender(s) ==
    /\ comp.mounted
    /\ \/ comp.data # comp.rData
       \/ comp.retryCount # comp.rRetryCount
       \/ comp.isInView # comp.rIsInView
    /\ Commit(FALSE, comp, PropsOf(comp), s)

\* no then callback is waiting in the microtask queue; timers and network
\* answers are tasks of their own, so they wait for the queue to drain
MicrotasksDone == \A s \in FetchSlots : calls[s].pc # "resolved"

\* the poll timer fires: setRetryCount((count) => count + 1)
TimerFire ==
    /\ comp.mounted
    /\ comp.timer
    /\ MicrotasksDone
    /\ comp' = [comp EXCEPT !.timer = FALSE, !.timerFor = NoNumber,
                            !.retryCount = @ + 1]
    /\ UNCHANGED <<cache, calls, page, probe>>

\* variant of Intersect: the callback leaves the observer connected
IntersectKeepsObserver ==
    /\ comp.mounted
    /\ comp.observers > 0
    /\ MicrotasksDone
    /\ comp' = [comp EXCEPT !.isInView = TRUE]
    /\ UNCHANGED <<cache, calls, page, probe>>

\* the observer reports an intersecting entry: setIsInView(true);
\* observer.disconnect()
Intersect ==
    /\ comp.mounted
    /\ comp.observers > 0
    /\ MicrotasksDone
    /\ comp' = [comp EXCEPT !.isInView = TRUE, !.observers = @ - 1]
    /\ UNCHANGED <<cache, calls, page, probe>>

\* the then callback of an invocation that resolved from the cache runs (a
\* microtask queued while the effects were committed)
FetchThen(s) ==
    /\ s \in FetchSlots
    /\ comp.phase # "new"
    /\ calls[s].pc = "resolved"
    /\ comp' = thenCallback(comp, calls[s])
    /\ calls' = [calls EXCEPT ![s] = IdleCall]
    /\ UNCHANGED <<cache, page, probe>>

\* the network settles the pending request of the component's invocation;
\* when that settles the invocation, its promise callbacks run in the
\* microtasks that follow, before any other event
FetchRespond(s, outcome) ==
    /\ s \in FetchSlots
    /\ comp.phase # "new"
    /\ calls[s].pc = "fetching"
    /\ MicrotasksDone
    /\ LET call == AfterOutcome(calls[s], outcome)
       IN  /\ calls' = [calls EXCEPT ![s] = consumed(call)]
           /\ comp' = settled(comp, call)
           /\ page' = logged(page, call)
    /\ Len(page'.fetchWarnings) <= MaxWarnings
    /\ cache' = CacheAfterOutcome(cache, calls[s], outcome)
    /\ UNCHANGED probe

\* the component unmounts: the cleanups of the fetch and poll effects run
Unmount ==
    /\ comp.mounted
    /\ comp' = [comp EXCEPT !.mounted = FALSE, !.phase = "unmounted",
                            !.timer = FALSE, !.timerFor = NoNumber,
                            !.observers = IF @ > 0 THEN @ - 1 ELSE @]
    /\ calls' = IF comp.controller # 0
                THEN [calls EXCEPT ![comp.controller] = abortFetch(@)]
                ELSE calls
    /\ page' = loggedAbort(page, comp.controller)
    /\ Len(page'.fetchWarnings) <= MaxWarnings
    /\ UNCHANGED <<cache, probe>>

\* the props of an image that loads eagerly in a browser: the descriptor,
\* the fetches and the poll timer do not depend on the visibility state
FetchProps == {p \in CompProps : p.loading = Str(<<"eager">>)}

NextLegacyImg ==
    \/ \E p \in FetchProps, s \in FetchSlots \cup {0} : Mount(p, s, "browser")
    \/ \E p \in FetchProps, s \in FetchSlots \cup {0} : SetProps(p, s)
    \/ \E s \in FetchSlots \cup {0} : Rerender(s)
    \/ TimerFire
    \/ \E s \in FetchSlots : FetchThen(s)
    \/ \E s \in FetchSlots, o \in CompOutcomes : FetchRespond(s, o)
    \/ Unmount

SpecLegacyImg == Init /\ [][NextLegacyImg]_vars

(***************************************************************************)
(* LegacyImg in every host, lazy and eager, with one onImageData callback  *)
(* and endpoints that answer a renderable or a pending descriptor          *)
(***************************************************************************)
ViewProps == {p \in CompProps : p.onImageData = "f"}

ViewOutcomes == {OkResponse(ReadyData), OkResponse(PendingData)}

NextVisibility ==
    \/ \E p \in ViewProps, s \in FetchSlots \cup {0}, e \in Envs : Mount(p, s, e)
    \/ \E p \in ViewProps, s \in FetchSlots \cup {0} : SetProps(p, s)
    \/ \E s \in FetchSlots \cup {0} : Rerender(s)
    \/ TimerFire
    \/ Intersect
    \/ \E s \in FetchSlots : FetchThen(s)
    \/ \E s \in FetchSlots, o \in ViewOutcomes : FetchRespond(s, o)
    \/ Unmount

SpecVisibility == Init /\ [][NextVisibility]_vars

\* React performs every render that a state update has asked for
SpecVisibilityFair == SpecVisibility /\ WF_vars(\E s \in FetchSlots \cup {0} : Rerender(s))

(***************************************************************************)
(* LegacyImg in a browser with a fixed identifier, with and without the    *)
(* eager prop and the loading prop                                         *)
(***************************************************************************)
EagerProps ==
    [mediaId : {Num(1)}, cdnHost : CompCdnHosts, onImageData : CompCallbacks,
     loading : CompLoadings, eager : BOOLEAN]

NextEager ==
    \/ \E p \in EagerProps, s \in FetchSlots \cup {0} : Mount(p, s, "browser")
    \/ \E p \in EagerProps, s \in FetchSlots \cup {0} : SetProps(p, s)
    \/ \E s \in FetchSlots \cup {0} : Rerender(s)
    \/ TimerFire
    \/ Intersect
    \/ \E s \in FetchSlots : FetchThen(s)
    \/ \E s \in FetchSlots, o \in ViewOutcomes : FetchRespond(s, o)
    \/ Unmount

SpecEager == Init /\ [][NextEager]_vars

(***************************************************************************)
(* LegacyImg in a browser with a fixed identifier whose every fetch        *)
(* returns a descriptor that is not marked failed and has no renderable    *)
(* source (the legacy endpoint may have to answer in place of the primary  *)
(* one)                                                                    *)
(***************************************************************************)
SameImage(p) == comp.mounted => (p.mediaId = comp.mediaId /\ p.cdnHost = comp.cdnHost)

\* { variants_status: 'processing' }
ProcessingData ==
    [EmptyData EXCEPT !.variants_status =
        Str(<<"p", "r", "o", "c", "e", "s", "s", "i", "n", "g">>)]

\* descriptors that are not marked failed and have no renderable source
StalledBodies == {PendingData, ProcessingData, EmptyData}

StalledOutcome(s, o) ==
    \/ o \in {OkResponse(b) : b \in StalledBodies}
    \/ o = HttpFailure(500) /\ Len(calls[s].requested) = 1

NextStalled ==
    \/ \E p \in CompProps, s \in FetchSlots \cup {0} : Mount(p, s, "browser")
    \/ \E p \in CompProps, s \in FetchSlots \cup {0} : SameImage(p) /\ SetProps(p, s)
    \/ \E s \in FetchSlots \cup {0} : Rerender(s)
    \/ TimerFire
    \/ Intersect
    \/ \E s \in FetchSlots, o \in {OkResponse(b) : b \in StalledBodies} \cup CompOutcomes :
            StalledOutcome(s, o) /\ FetchRespond(s, o)

SpecStalled == Init /\ [][NextStalled]_vars

(***************************************************************************)
(* Img (ImgBase), ModernImg and the OptixFlow defaults                     *)
(***************************************************************************)
\* typeof props.src === 'string' && props.src.trim().length > 0
hasSrc(src) == IsString(src) /\ Len(Trim(src.s)) > 0

\* React renders Img (memo(ImgBase)) with props p that differ from those of
\* its last render: the deprecation warning for a finite mediaId, then the
\* choice of the element to return
ImgBase(p) ==
    /\ p # page.props
    /\ LET warned == IF IsFinite(p.mediaId)
                     THEN warnDeprecatedMediaId(page, p.mediaId) ELSE page
           branch == IF IsFinite(p.mediaId) THEN "legacy"
                     ELSE IF hasSrc(p.src) THEN "modern" ELSE "null"
       IN  page' = [warned EXCEPT
                !.rendered = @ \cup {p.mediaId},
                !.branch = branch,
                !.props = p,
                !.childPending = (branch = "modern"),
                \* another element type unmounts the ModernImg instance
                !.modern = IF branch = "modern" THEN @ ELSE NoModernImg]
    /\ UNCHANGED <<cache, calls, comp, probe>>

\* React renders the ModernImg element:
\* useMemo(() => resolveOptixFlowConfig(optixFlowConfig), [optixFlowConfig])
ModernImg ==
    /\ page.branch = "modern"
    /\ page.childPending
    /\ LET config == page.props.optixFlowConfig
           recompute == ~page.modern.mounted \/ config # page.modern.dep
       IN  page' = [page EXCEPT
                !.childPending = FALSE,
                !.modern = [mounted |-> TRUE,
                            dep |-> config,
                            resolvedOptixConfig |->
                                IF recompute THEN resolveOptixFlowConfig(page, config)
                                ELSE page.modern.resolvedOptixConfig]]
    /\ UNCHANGED <<cache, calls, comp, probe>>

\* setDefaultOptixFlowConfig(config): defaultOptixFlowConfig = config ?? undefined
setDefaultOptixFlowConfig(config) ==
    /\ page' = [page EXCEPT !.defaultOptixFlowConfig = Coalesce(config, Undef)]
    /\ UNCHANGED <<cache, calls, comp, probe>>

\* a script of the host assigns one of the three globals
SetGlobal(name, value) ==
    /\ page' = [page EXCEPT ![name] = value]
    /\ UNCHANGED <<cache, calls, comp, probe>>

\* the mediaId and src props Img is rendered with
ImgMediaIds == {Num(1), Num(2), NaN, NoNumber}
ImgSrcs == {Undef, Str(<<" ">>), Str(<<"/", "a", ".", "jpg">>)}

\* Img rendered with and without mediaId and src, in a host with or
\* without console.warn
WarnProps ==
    [mediaId : ImgMediaIds, src : ImgSrcs, optixFlowConfig : {Undef}, alt : {Undef}]

InitWarn ==
    /\ cache = <<>>
    /\ calls = [s \in Slots |-> IdleCall]
    /\ comp = Unmounted
    /\ page \in {InitialPage(console) : console \in BOOLEAN}
    /\ probe = NoProbe

NextWarn ==
    \/ \E p \in WarnProps : ImgBase(p)
    \/ ModernImg

SpecWarn == InitWarn /\ [][NextWarn]_vars

\* the OptixFlow configs of the three sources
PropConfig == Config(<<"p">>, Undef)
DefaultConfig == Config(<<"d">>, Num(80))
GlobalNames == {"PageSpeedImgDefaults", "OpensiteImgDefaults", "PAGE_SPEED_IMG_DEFAULTS"}
GlobalConfig(name) == Config(<<"g", name>>, Num(60))

PerCallConfigs == {Undef, PropConfig}
DefaultArgs == {Undef, Null, DefaultConfig}
GlobalValues(name) == {Undef, Null, GlobalConfig(name)}

\* Img rendered with a src, with and without a per-call config
ConfigProps ==
    [mediaId : {NoNumber}, src : {Str(<<"/", "a", ".", "jpg">>)},
     optixFlowConfig : PerCallConfigs, alt : {Undef, Str(<<"a">>)}]

NextConfig ==
    \/ \E p \in ConfigProps : ImgBase(p)
    \/ ModernImg
    \/ \E c \in DefaultArgs : setDefaultOptixFlowConfig(c)
    \/ \E name \in GlobalNames : \E v \in GlobalValues(name) : SetGlobal(name, v)

SpecConfig == Init /\ [][NextConfig]_vars

(***************************************************************************)
(* Callers of imageDataHasRenderableSource                                 *)
(***************************************************************************)
\* what a slot or field holds when it is absent or blank, and URLs
BlankValues == {Undef, Null, Str(<<>>), Str(<<" ">>)}
UrlValues == {Str(<<"/", "a", ".", "jpg">>), Str(<<" ", "u">>)}

Formats == {"AVIF", "WEBP", "JPEG"}
SizeNames == {"sm", "md", "lg", "full"}
DirectFieldNames ==
    {"img_url", "file_data_url", "file_data_thumbnail_url", "img_src", "med_src",
     "thumb_src", "low_res_thumb"}

\* the places of a descriptor that can hold a URL
SlotPositions == [kind : {"slot"}, format : Formats, name : SizeNames]
FieldPositions == [kind : {"field"}, format : {"none"}, name : DirectFieldNames]
FallbackPosition == [kind |-> "field", format |-> "none", name |-> "fallback_url"]
Positions == SlotPositions \cup FieldPositions \cup {FallbackPosition}

\* the shapes of variants_data in a descriptor without a URL
VariantShapes(b) ==
    {NoVariantsData,
     VariantsData(NullVariants, Undef),
     VariantsData([NullVariants EXCEPT !.t = "undef"], Undef),
     VariantsData(Variants(NoSizes, NoSizes, NoSizes), Undef),
     VariantsData(Variants(Sizes(b, b, b, b), Sizes(b, b, b, b), Sizes(b, b, b, b)), Undef)}

\* descriptors in which every slot and every field is absent or blank
BlankDescriptors ==
    {[t |-> "obj", variants_data |-> vd, variants_status |-> Undef,
      img_url |-> b, file_data_url |-> b, file_data_thumbnail_url |-> b,
      img_src |-> b, med_src |-> b, thumb_src |-> b, low_res_thumb |-> b,
      fallback_url |-> b, meta |-> NoMeta] : <<b, vd>> \in UNION {{<<v, w>> : w \in VariantShapes(v)} : v \in BlankValues}}

\* descriptor d with URL u put at position pos
WithUrl(d, pos, u) ==
    IF pos.kind = "field" THEN [d EXCEPT ![pos.name] = u]
    ELSE LET variants == IF d.variants_data.t = "obj" /\ d.variants_data.variants.t = "obj"
                         THEN d.variants_data.variants
                         ELSE Variants(NoSizes, NoSizes, NoSizes)
             entry == IF variants[pos.format].t = "obj"
                      THEN variants[pos.format] ELSE Sizes(Undef, Undef, Undef, Undef)
         IN  [d EXCEPT !.variants_data =
                VariantsData([variants EXCEPT ![pos.format] = [entry EXCEPT ![pos.name] = u]],
                             Undef)]

ClassifierInputs ==
    {NullData} \cup BlankDescriptors
        \cup {WithUrl(d, pos, u) : d \in BlankDescriptors, pos \in Positions, u \in UrlValues}

\* a caller asks imageDataHasRenderableSource(data) once more
Classify ==
    /\ Len(probe.answers) < MaxChecks
    /\ probe' = [probe EXCEPT !.answers = Append(@, imageDataHasRenderableSource(probe.data))]
    /\ UNCHANGED <<cache, calls, comp, page>>

InitClassifier ==
    /\ cache = <<>>
    /\ calls = [s \in Slots |-> IdleCall]
    /\ comp = Unmounted
    /\ page = InitialPage(TRUE)
    /\ probe \in {[NoProbe EXCEPT !.data = d] : d \in ClassifierInputs}

NextClassifier == Classify

SpecClassifier == InitClassifier /\ [][NextClassifier]_vars

(***************************************************************************)
(* Callers of the URL builder: ensureAbsolute and buildPlaceholderImageUrl *)
(***************************************************************************)
\* the url argument: absent, blank, not a string, absolute, a data: URL,
\* protocol-relative, root-relative, relative
UrlArguments ==
    {Undef, Null, Num(5), Str(<<>>), Str(<<" ">>), Str(<<"\t", " ">>),
     Str(<<"http:", "/", "/", "x", "/", "a", ".", "jpg">>),
     Str(<<"https:", "/", "/", "x", "/", "a", ".", "jpg">>),
     Str(<<"HTTPS:", "/", "/", "x", "/", "a", ".", "jpg">>),
     Str(<<"Http:", "/", "/", "x">>),
     Str(<<"http:", "/", "x">>),
     Str(<<"data:", "image", "/", "gif;base64,R0lG">>),
     Str(<<"DATA:", "image", "/", "gif;base64,R0lG">>),
     Str(<<"/", "/", "x", "/", "a", ".", "jpg">>),
     Str(<<"/", "/", "/", "a">>),
     Str(<<"/", "img", "/", "1", ".", "jpg">>),
     Str(<<"/">>),
     Str(<<"a", ".", "jpg">>),
     Str(<<" ", "/", "a", ".", "jpg">>)}

\* the cdnHost argument: absent, with one trailing slash, without, with two
\* trailing slashes
HostArguments ==
    {Undef,
     Str(DEFAULT_CDN_HOST \o <<"/">>),
     Str(<<"https:", "/", "/", "img", ".", "test">>),
     Str(<<"https:", "/", "/", "img", ".", "test", "/", "/">>)}

IdArguments == {Num(1), Num(123)}

\* the caller normalises its URL once more
EnsureAbsolute ==
    /\ Len(probe.answers) < MaxChecks
    /\ probe' = [probe EXCEPT !.answers =
            Append(@, [op |-> "ensureAbsolute",
                       value |-> ensureAbsolute(probe.url, cdnOrigin(probe.cdnHost))])]
    /\ UNCHANGED <<cache, calls, comp, page>>

\* the caller builds the placeholder URL of its identifier once more
BuildPlaceholder ==
    /\ Len(probe.answers) < MaxChecks
    /\ probe' = [probe EXCEPT !.answers =
            Append(@, [op |-> "buildPlaceholderImageUrl",
                       value |-> Str(buildPlaceholderImageUrl(probe.mediaId, probe.cdnHost))])]
    /\ UNCHANGED <<cache, calls, comp, page>>

InitUrlBuilder ==
    /\ cache = <<>>
    /\ calls = [s \in Slots |-> IdleCall]
    /\ comp = Unmounted
    /\ page = InitialPage(TRUE)
    /\ probe \in {[NoProbe EXCEPT !.url = u, !.cdnHost = h, !.mediaId = m] :
                    u \in UrlArguments, h \in HostArguments, m \in IdArguments}

NextUrlBuilder ==
    \/ EnsureAbsolute
    \/ BuildPlaceholder

SpecUrlBuilder == InitUrlBuilder /\ [][NextUrlBuilder]_vars

(***************************************************************************)
(* Callers of the cache functions                                          *)
(***************************************************************************)
\* keys and values of direct callers: a value may be undefined
CacheKeys == {CacheKey(Num(1), Undef), CacheKey(Num(2), Undef)}
CacheValues == {ReadyData, DirectData, UndefData}

\* the record of one call: the function, its key, the value passed or
\* returned, and the answer of cacheHas
CacheCall(op, key, value, has) == [op |-> op, key |-> key, value |-> value, has |-> has]

CacheSet(key, value) ==
    /\ Len(probe.answers) < MaxOps
    /\ cache' = cacheSet(cache, key, value)
    /\ probe' = [probe EXCEPT !.answers = Append(@, CacheCall("cacheSet", key, value, FALSE))]
    /\ UNCHANGED <<calls, comp, page>>

CacheGet(key) ==
    /\ Len(probe.answers) < MaxOps
    /\ probe' = [probe EXCEPT !.answers =
            Append(@, CacheCall("cacheGet", key, cacheGet(cache, key), FALSE))]
    /\ UNCHANGED <<cache, calls, comp, page>>

CacheHas(key) ==
    /\ Len(probe.answers) < MaxOps
    /\ probe' = [probe EXCEPT !.answers =
            Append(@, CacheCall("cacheHas", key, UndefData, cacheHas(cache, key)))]
    /\ UNCHANGED <<cache, calls, comp, page>>

NextCache ==
    \/ \E k \in CacheKeys, v \in CacheValues : CacheSet(k, v)
    \/ \E k \in CacheKeys : CacheGet(k)
    \/ \E k \in CacheKeys : CacheHas(k)

SpecCache == Init /\ [][NextCache]_vars

(***************************************************************************)
(* Callers of the resolver: the picture memo of LegacyImg and the          *)
(* source-sets its render derives from it                                  *)
(***************************************************************************)
\* a URL that names the place of the descriptor it is put at
UrlAt(pos) ==
    IF pos.kind = "field" THEN Str(<<"/", pos.name, ".", "jpg">>)
    ELSE Str(<<"/", pos.format, "/", pos.name, ".", ToLowerCase(<<pos.format>>)[1]>>)

\* blank descriptors: every slot and field absent, or every one a blank
\* string, in each shape of variants_data
ResolverBases == {d \in BlankDescriptors : d.img_url \in {Undef, Str(<<" ">>)}}

\* descriptors with a URL at no, one or two places
OrderDescriptors ==
    ResolverBases
        \cup {WithUrl(d, pos, UrlAt(pos)) : d \in ResolverBases, pos \in Positions}
        \cup {WithUrl(WithUrl(d, p[1], UrlAt(p[1])), p[2], UrlAt(p[2])) :
                d \in ResolverBases, p \in Positions \X Positions}

\* metadata of the WEBP and of the JPEG entry: absent, without widths, with
\* widths under the long names, under the short names, with a width of 0
WebpMetadata ==
    {NoMetadata,
     Metadata(NoWidths),
     Metadata(Widths(Num(320), Num(800), NoNumber, NoNumber)),
     Metadata([Widths(NoNumber, NoNumber, NoNumber, NoNumber) EXCEPT
                    !.sm = Num(400), !.lg = Num(1200)]),
     Metadata(Widths(Num(320), Num(0), NoNumber, NoNumber))}

JpegMetadata ==
    {NoMetadata, Metadata(Widths(Num(300), NoNumber, NoNumber, Num(2000)))}

\* descriptors with WEBP URLs at sm and md (lg blank, full absent), a JPEG
\* URL at sm and full, an AVIF entry without URL, and the metadata above
WidthDescriptors ==
    {[EmptyData EXCEPT !.variants_data =
        VariantsData(
            Variants(avif,
                     [Sizes(Str(<<"/", "a", "-", "sm", ".", "webp">>),
                            Str(<<"/", "a", "-", "md", ".", "webp">>),
                            Str(<<" ">>), Undef) EXCEPT !.metadata = mw],
                     [Sizes(Str(<<"/", "a", "-", "sm", ".", "jpg">>), Undef, Null,
                            Str(<<"/", "a", "-", "full", ".", "jpg">>)) EXCEPT !.metadata = mj]),
            Undef)] :
        mw \in WebpMetadata, mj \in JpegMetadata,
        avif \in {NoSizes, Sizes(Undef, Str(<<>>), Str(<<" ">>), Null)}}

ResolverInputs == {NullData} \cup OrderDescriptors \cup WidthDescriptors

ResolverHosts == {Undef, Str(<<"https:", "/", "/", "img", ".", "test", "/">>)}

NoSrcSets == [webp |-> Undef, avif |-> Undef, jpeg |-> Undef]

\* the caller evaluates the picture memo for its descriptor once more and,
\* as the render does for a picture that is not null, toSrcSet for the
\* three formats
Resolve ==
    /\ Len(probe.answers) < MaxChecks
    /\ LET origin == cdnOrigin(probe.cdnHost)
           pic == picture(probe.data, origin)
           sets == IF pic.t # "obj" THEN NoSrcSets
                   ELSE [webp |-> toSrcSet(pic.webp, pic.widths, origin),
                         avif |-> toSrcSet(pic.avif, pic.widths, origin),
                         jpeg |-> toSrcSet(pic.jpeg, pic.widths, origin)]
       IN  probe' = [probe EXCEPT !.answers =
                Append(@, [op |-> "picture", picture |-> pic, sets |-> sets])]
    /\ UNCHANGED <<cache, calls, comp, page>>

InitResolver ==
    /\ cache = <<>>
    /\ calls = [s \in Slots |-> IdleCall]
    /\ comp = Unmounted
    /\ page = InitialPage(TRUE)
    /\ probe \in {[NoProbe EXCEPT !.data = d, !.cdnHost = h] :
                    d \in ResolverInputs, h \in ResolverHosts}

NextResolver == Resolve

SpecResolver == InitResolver /\ [][NextResolver]_vars

(***************************************************************************)
(* Renders of LegacyImg as a function of its props and state values        *)
(***************************************************************************)
\* variants of the descriptors rendered
RenderVariants ==
    {NoVariantsData,
     VariantsData(Variants(NoSizes,
                           Sizes(Str(<<"/", "a", ".", "webp">>), Undef, Undef, Undef),
                           Sizes(Str(<<"/", "a", ".", "jpg">>), Undef, Undef, Undef)), Undef),
     VariantsData(Variants(NoSizes, NoSizes,
                           Sizes(Undef, Str(<<"/", "a", ".", "jpg">>), Undef, Undef)), Undef),
     VariantsData(Variants(NoSizes,
                           Sizes(Str(<<"/", "a", ".", "webp">>), Undef, Undef, Undef),
                           NoSizes), Undef),
     VariantsData(Variants(Sizes(Undef, Undef, Str(<<"/", "a", ".", "avif">>), Undef),
                           NoSizes,
                           Sizes(Undef, Undef, Str(<<"/", "a", ".", "jpg">>), Undef)), Undef),
     VariantsData(Variants(NoSizes,
                           Sizes(Str(<<>>), Str(<<" ">>), Str(<<>>), Str(<<>>)),
                           NoSizes), Undef)}

\* direct fields of the descriptors rendered: none, img_url with and
\* without a file extension, with an upper-case one, fallback_url
RenderFields ==
    {EmptyData,
     [EmptyData EXCEPT !.img_url = Str(<<"/", "img", "/", "1", ".", "jpg">>)],
     [EmptyData EXCEPT !.img_url = Str(<<"/", "img", "/", "1">>)],
     [EmptyData EXCEPT !.img_url = Str(<<"https:", "/", "/", "x", "/", "b", ".", "PNG">>)],
     [EmptyData EXCEPT !.fallback_url = Str(<<"/", "f", ".", "png">>)]}

\* meta of the descriptors rendered
RenderMetas ==
    {NoMeta,
     Meta(Dimensions(Num(800), Num(600)), NoManifest),
     Meta(NoDimensions, Manifest(Str(<<"hero">>))),
     Meta(Dimensions(Num(800), NoNumber), Manifest(Str(<<"hero">>))),
     Meta(NoDimensions, Manifest(Str(<<>>)))}

\* variants_data.metadata of the descriptors rendered
RenderDeclared == {NoDimensions, Dimensions(Num(400), Num(300))}

RenderDescriptors ==
    {NullData}
        \cup {[f EXCEPT !.variants_data =
                    (IF vd.t = "obj" THEN [vd EXCEPT !.metadata = dm]
                     ELSE IF dm.t = "obj" THEN [VariantsData(NullVariants, Undef) EXCEPT
                                                    !.metadata = dm]
                     ELSE vd),
                         !.meta = mt] :
                f \in RenderFields, vd \in RenderVariants, mt \in RenderMetas,
                dm \in RenderDeclared}

\* the width prop: absent, a number, a numeric string, a string that is not
\* numeric, an explicit undefined; the height prop: absent or a number
RenderWidths == {Absent, Num(100), Str(<<"200">>), Str(<<"abc">>), NoNumber}
RenderHeights == {Absent, Num(50)}
RenderSizes == {<<w, h>> \in RenderWidths \X RenderHeights : h = Absent \/ w = Num(100)}
RenderHosts == {Undef, Str(<<"https:", "/", "/", "img", ".", "test", "/">>)}
RenderLoadings == {Undef, Str(<<"eager">>)}
RenderDecodings == {Undef, Str(<<"sync">>)}

\* the props of LegacyImg that the render reads, from those of the caller
RenderPropsOf(pr) ==
    [mediaId |-> pr.mediaId, cdnHost |-> pr.cdnHost, loading |-> pr.loading,
     decoding |-> pr.decoding, sizes |-> Undef, src |-> Undef, width |-> pr.width,
     height |-> pr.height]

\* React renders the LegacyImg of the caller once more
Render ==
    /\ Len(probe.answers) < MaxChecks
    /\ probe' = [probe EXCEPT !.answers =
            Append(@, [op |-> "render",
                       element |-> LegacyImgElement(RenderPropsOf(probe), probe.data,
                                                     probe.isInView)])]
    /\ UNCHANGED <<cache, calls, comp, page>>

InitRender ==
    /\ cache = <<>>
    /\ calls = [s \in Slots |-> IdleCall]
    /\ comp = Unmounted
    /\ page = InitialPage(TRUE)
    /\ probe \in {[NoProbe EXCEPT !.data = d, !.mediaId = Num(1), !.cdnHost = host,
                                  !.width = wh[1], !.height = wh[2],
                                  !.loading = l, !.decoding = dc, !.isInView = v] :
                    d \in RenderDescriptors, host \in RenderHosts, wh \in RenderSizes,
                    l \in RenderLoadings, dc \in RenderDecodings, v \in BOOLEAN}

NextRender == Render

SpecRender == InitRender /\ [][NextRender]_vars

(***************************************************************************)
(* Direct callers that invoke fetchImageData several times for one         *)
(* identifier and host before the earlier invocations have settled         *)
(***************************************************************************)
ConcurrentId == Num(1)
ConcurrentHost == Undef
ConcurrentOutcomes ==
    {OkResponse(ReadyData), OkResponse(DirectData), OkResponse(PendingData), HttpFailure(500)}

\* a caller invokes fetchImageData(1, { signal, bypassCache }) with a signal
\* of its own
ConcurrentCall(s, bypassCache) ==
    /\ FreeSlot(s, ConcurrentSlots)
    /\ calls' = [calls EXCEPT ![s] =
                    fetchImageDataStart(cache, ConcurrentId, ConcurrentHost, bypassCache)]
    /\ UNCHANGED <<cache, comp, page, probe>>

NextConcurrent ==
    \/ \E s \in ConcurrentSlots, b \in BOOLEAN : ConcurrentCall(s, b)
    \/ \E s \in ConcurrentSlots, o \in ConcurrentOutcomes : NetworkRespond(s, o)
    \/ \E s \in ConcurrentSlots : ApiAbort(s)
    \/ \E s \in ConcurrentSlots : ApiReturn(s)

SpecConcurrent == Init /\ [][NextConcurrent]_vars

(***************************************************************************)
(* Direct callers that give fetchImageData hosts with no, one and two      *)
(* trailing slashes                                                        *)
(***************************************************************************)
SlashHosts ==
    {Undef,
     Str(<<"https:", "/", "/", "img", ".", "test">>),
     Str(<<"https:", "/", "/", "img", ".", "test", "/">>),
     Str(<<"https:", "/", "/", "img", ".", "test", "/", "/">>)}

SlashOutcomes == {OkResponse(ReadyData), OkResponse(PendingData), HttpFailure(500)}

NextSlashHosts ==
    \/ \E s \in ApiSlots, h \in SlashHosts, b \in BOOLEAN : ApiCall(s, Num(1), h, b)
    \/ \E s \in ApiSlots, o \in SlashOutcomes : NetworkRespond(s, o)
    \/ \E s \in ApiSlots : ApiAbort(s)
    \/ \E s \in ApiSlots : ApiReturn(s)

SpecSlashHosts == Init /\ [][NextSlashHosts]_vars

(***************************************************************************)
(* resetResponsivePictureState (core/useResponsiveReset.ts) on a picture   *)
(* with two sources, other code that sets a srcset, and animation frames   *)
(***************************************************************************)
\* the forEach callback for the i-th source: getAttribute, and for a
\* non-empty srcset setAttribute('data-srcset'), removeAttribute('srcset'),
\* requestAnimationFrame
resetSource(pg, i) ==
    LET srcset == pg.sources[i].srcset
    IN  IF Truthy(srcset)
        THEN [pg EXCEPT !.sources[i].dataSrcset = srcset,
                        !.sources[i].srcset = Null,
                        !.frames = Append(@, [source |-> i, srcset |-> srcset])]
        ELSE pg

\* element.querySelectorAll('source').forEach(...) from the i-th source on
RECURSIVE resetSources(_, _)
resetSources(pg, i) ==
    IF i > Len(pg.sources) THEN pg ELSE resetSources(resetSource(pg, i), i + 1)

\* resetResponsivePictureState(element): element is null or the picture
resetResponsivePictureState(pg, element) ==
    IF element = "null" THEN pg ELSE resetSources(pg, 1)

\* the animation frame callbacks run in the order they were requested:
\* source.setAttribute('srcset', srcset)
RECURSIVE runFrames(_)
runFrames(pg) ==
    IF pg.frames = <<>> THEN pg
    ELSE LET f == Head(pg.frames)
         IN  runFrames([pg EXCEPT !.sources[f.source].srcset = f.srcset,
                                  !.frames = Tail(@)])

SrcsetValues == {Null, Str(<<>>), Str(<<"a">>), Str(<<"b">>)}
NewSrcsets == {Str(<<"b">>), Str(<<"c">>)}
PictureSources == {<<Source(a, Null), Source(b, Null)>> : a, b \in SrcsetValues}
PictureElements == {"null", "picture"}

\* some code calls resetResponsivePictureState(element)
ResetPicture(element) ==
    /\ page.resets < MaxResets
    /\ page' = [resetResponsivePictureState(page, element) EXCEPT !.resets = @ + 1]
    /\ UNCHANGED <<cache, calls, comp, probe>>

\* other code (a render of the picture) sets the srcset of the i-th source
SetSrcset(i, srcset) ==
    /\ page.changes < MaxChanges
    /\ i \in DOMAIN page.sources
    /\ page' = [page EXCEPT !.sources[i].srcset = srcset, !.changes = @ + 1]
    /\ UNCHANGED <<cache, calls, comp, probe>>

\* the browser runs the callbacks of the next animation frame
AnimationFrame ==
    /\ page.frames # <<>>
    /\ page' = runFrames(page)
    /\ UNCHANGED <<cache, calls, comp, probe>>

InitReset ==
    /\ cache = <<>>
    /\ calls = [s \in Slots |-> IdleCall]
    /\ comp = Unmounted
    /\ page \in {[InitialPage(TRUE) EXCEPT !.sources = ss] : ss \in PictureSources}
    /\ probe = NoProbe

NextReset ==
    \/ \E element \in PictureElements : ResetPicture(element)
    \/ \E i \in 1..2, srcset \in NewSrcsets : SetSrcset(i, srcset)
    \/ AnimationFrame

SpecReset == InitReset /\ [][NextReset]_vars

(***************************************************************************)
(* Properties of fetchImageData                                            *)
(***************************************************************************)
\* the endpoint URLs as the interface documents them
PrimaryEndpoint(call) ==
    normalizeHost(call.cdnHost) \o <<"/", "assets", "/", "images", "/", ToString(call.mediaId.n)>>

LegacyEndpoint(call) ==
    normalizeHost(call.cdnHost) \o <<"/", "i", "/", "r", "/", ToString(call.mediaId.n)>>

NonCancellationFailure(outcome) == outcome.kind \in {"http", "network", "thrown"}

\* C1: a call that goes to the network requests the primary endpoint first,
\* the legacy endpoint only after the primary attempt failed with a
\* non-cancellation error, never more than two requests, and resolves to the
\* legacy endpoint's descriptor when the legacy attempt succeeds.
C1_PrimaryThenLegacy ==
    \A s \in Slots :
        LET call == calls[s]
        IN  /\ Len(call.requested) <= 2
            /\ Len(call.answers) <= Len(call.requested)
            /\ call.pc = "fetching" => Len(call.requested) = Len(call.answers) + 1
            /\ Len(call.requested) >= 1 => call.requested[1] = PrimaryEndpoint(call)
            /\ Len(call.requested) = 2 =>
                    /\ call.requested[2] = LegacyEndpoint(call)
                    /\ NonCancellationFailure(call.answers[1])
            /\ (call.pc = "resolved" /\ Len(call.requested) = 2) =>
                    /\ call.answers[2].kind = "ok"
                    /\ call.result = call.answers[2].body

\* C1 witness: the primary attempt failed and the legacy attempt answered
C1_Witness ==
    \E s \in Slots :
        /\ calls[s].pc = "resolved"
        /\ Len(calls[s].requested) = 2
        /\ calls[s].answers[1].kind = "http"
        /\ calls[s].result = DirectData

\* C2: when both endpoints fail with non-cancellation errors the call
\* rejects with the error object of the last attempt; for a non-2xx
\* response that error carries the status code and names the legacy URL.
\* (A rejection value of the last attempt that is not an Error instance is
\* replaced by the generic Error of the last statement.)
C2_RejectsWithLastError ==
    \A s \in Slots :
        LET call == calls[s]
        IN  (/\ Len(call.answers) = 2
             /\ NonCancellationFailure(call.answers[1])
             /\ NonCancellationFailure(call.answers[2])) =>
                /\ call.pc = "rejected"
                /\ call.error.isError
                /\ call.error.name # "AbortError"
                /\ call.answers[2].kind \in {"http", "network"} =>
                        /\ call.error.attempt = 2
                        /\ call.error.name =
                              (IF call.answers[2].kind = "http" THEN "Error" ELSE "TypeError")
                /\ call.answers[2].kind = "http" =>
                        /\ call.error.status = call.answers[2].status
                        /\ call.error.url = LegacyEndpoint(call)

\* C2 witness: primary answered 404, legacy answered 500
C2_Witness ==
    \E s \in Slots :
        /\ calls[s].pc = "rejected"
        /\ Len(calls[s].answers) = 2
        /\ calls[s].answers[1] = HttpFailure(404)
        /\ calls[s].answers[2] = HttpFailure(500)

\* C3: an attempt that ends with an AbortError is the last attempt of its
\* call: the call is rejected with that AbortError and no further endpoint
\* is requested.
C3_CancellationIsTerminal ==
    \A s \in Slots :
        LET call == calls[s]
        IN  \A i \in 1..Len(call.answers) :
                call.answers[i].kind = "abort" =>
                    /\ i = Len(call.answers)
                    /\ Len(call.requested) = i
                    /\ call.pc = "rejected"
                    /\ call.error = AbortError(i)

\* C3 witness: the primary attempt is cancelled
C3_Witness ==
    \E s \in Slots :
        /\ calls[s].pc = "rejected"
        /\ Len(calls[s].answers) = 1
        /\ calls[s].answers[1].kind = "abort"

\* the documented cache key of a call
DocumentedKey(call) ==
    <<"image:">> \o normalizeHost(call.cdnHost) \o <<":", ToString(call.mediaId.n)>>

\* invocation s resumes from a network answer in this step
Answered(s) == Len(calls'[s].answers) = Len(calls[s].answers) + 1

\* C4: the cache is written exactly by a call that got a 2xx descriptor
\* from the network that is renderable, under image:<host>:<id>, with that
\* descriptor; all other steps leave the cache alone; hence every stored
\* value is renderable.
C4_CacheWrittenIffRenderable ==
    /\ [](\A k \in DOMAIN cache : imageDataHasRenderableSource(cache[k]))
    /\ [][\A s \in Slots :
            LET got == /\ Answered(s)
                       /\ calls'[s].pc = "resolved"
                       /\ imageDataHasRenderableSource(calls'[s].result)
            IN  /\ got =>
                    /\ DOMAIN cache' = DOMAIN cache \cup {DocumentedKey(calls[s])}
                    /\ cache'[DocumentedKey(calls[s])] = calls'[s].result
                    /\ \A k \in DOMAIN cache :
                          k # DocumentedKey(calls[s]) => cache'[k] = cache[k]
                /\ ((\A t \in Slots : ~Answered(t)) \/ (Answered(s) /\ ~got)) =>
                        cache' = cache]_vars

\* C4 witness: a renderable descriptor is cached under the key of the
\* non-default host
C4_Witness ==
    /\ <<"image:", "https:", "/", "/", "img", ".", "test", ":", "1">> \in DOMAIN cache
    /\ cache[<<"image:", "https:", "/", "/", "img", ".", "test", ":", "1">>] = ReadyData

\* invocation s starts in this step
Started(s) == calls[s].pc = "idle" /\ calls'[s].pc # "idle"

\* C5: a call without bypassCache whose key is cached resolves to the cached
\* descriptor without any request; a call with bypassCache requests the
\* primary endpoint whatever the cache holds.
C5_CacheHitAndBypass ==
    [][\A s \in Slots :
        (Started(s) /\ IsFinite(calls'[s].mediaId)) =>
            LET call == calls'[s]
                key == DocumentedKey(call)
            IN  /\ (~call.bypassCache /\ key \in DOMAIN cache) =>
                    /\ call.pc = "resolved"
                    /\ call.result = cache[key]
                    /\ call.requested = <<>>
                /\ call.bypassCache =>
                    /\ call.pc = "fetching"
                    /\ call.requested = <<PrimaryEndpoint(call)>>]_vars

\* C5 witness: a call answered from the cache
C5_Witness ==
    \E s \in Slots :
        /\ calls[s].pc = "resolved"
        /\ calls[s].from = "cache"
        /\ ~calls[s].bypassCache
        /\ calls[s].requested = <<>>

\* C6: a call with an identifier that is not a finite number is rejected
\* with the invalid-mediaId error, requests nothing and leaves the cache
\* unchanged.
C6_InvalidMediaId ==
    /\ [](\A s \in Slots :
            (calls[s].pc # "idle" /\ ~IsFinite(calls[s].mediaId)) =>
                /\ calls[s].pc = "rejected"
                /\ calls[s].error = InvalidMediaId
                /\ calls[s].requested = <<>>)
    /\ [][\A s \in Slots :
            (Started(s) /\ ~IsFinite(calls'[s].mediaId)) => cache' = cache]_vars

\* C6 witness: fetchImageData(Infinity) has been rejected
C6_Witness ==
    \E s \in Slots :
        /\ calls[s].mediaId = PosInfinity
        /\ calls[s].pc = "rejected"
        /\ calls[s].error = InvalidMediaId


(***************************************************************************)
(* Properties of LegacyImg                                                 *)
(***************************************************************************)
\* the then callback of invocation s runs in this step: setData(d) and
\* onImageData?.(d) with its result
ThenCallbackRuns(s) ==
    /\ calls[s].pc = "resolved"
    /\ calls'[s].pc # "resolved"

\* C7: a fetch of the component whose signal was aborted before its result
\* was applied never writes to the cache (it is never waiting for a network
\* answer) and its then callback (setData, onImageData) never runs, also
\* when it was answered from the cache.
C7_AbortedFetchIsDropped ==
    /\ [](\A s \in FetchSlots : calls[s].aborted => calls[s].pc # "fetching")
    /\ [][\A s \in FetchSlots : calls[s].aborted => ~ThenCallbackRuns(s)]_vars

\* C8: with a fixed identifier and only non-failed, non-renderable results,
\* whenever the last result has been applied and rendered and fewer than 5
\* attempts were made, a re-fetch timer is pending.
C8_RefetchUntilCeiling ==
    (/\ comp.mounted
     /\ comp.data = comp.rData
     /\ comp.retryCount = comp.rRetryCount
     /\ \A s \in FetchSlots : calls[s].pc = "idle"
     /\ comp.data \in StalledBodies
     /\ comp.retryCount < 5) => comp.timer

\* the descriptors whose status is 'failed' or 'error' in any letter case
MarkedFailed(data) == data \in {FailedData, ErrorData}

\* the poll effect schedules a timer in this step
TimerScheduled == ~comp.timer /\ comp'.timer

\* C9: the attempt counter stays within 0..5; a timer is pending only for a
\* render with fewer than 5 attempts and a descriptor not marked failed; and
\* once the counter is 5 or the descriptor is marked failed, no step that
\* keeps descriptor and identifier schedules a timer.
C9_AttemptsBounded ==
    /\ [](/\ comp.retryCount \in 0..5
          /\ comp.rRetryCount \in 0..5
          /\ comp.timer => (comp.rRetryCount < 5 /\ ~MarkedFailed(comp.rData)))
    /\ [][(/\ comp.retryCount = 5 \/ MarkedFailed(comp.data)
           /\ comp'.data = comp.data
           /\ comp'.mediaId = comp.mediaId) => ~TimerScheduled]_vars

\* C9 witness: the counter has reached the ceiling and no timer is pending
C9_Witness ==
    /\ comp.mounted
    /\ comp.retryCount = 5
    /\ comp.rRetryCount = 5
    /\ ~comp.timer

\* C10: a timer is pending only for a render that saw a descriptor, not
\* marked failed, not renderable per imageDataHasRenderableSource (no
\* renderable variant and no non-blank direct URL field), with fewer than 5
\* attempts.
C10_TimerOnlyForNonRenderable ==
    comp.timer =>
        /\ comp.rData.t = "obj"
        /\ ~MarkedFailed(comp.rData)
        /\ comp.rRetryCount < 5
        /\ ~imageDataHasRenderableSource(comp.rData)

\* C11: the attempt counter is incremented only by a timer of a mounted
\* component that was scheduled for the identifier the component now has: a
\* timer scheduled for an earlier identifier, or one of an unmounted
\* component, has been cleared before it fires.
C11_StaleTimerNeverFires ==
    [][comp'.retryCount = comp.retryCount + 1
            => (comp.mounted /\ comp.timerFor = comp.mediaId)]_vars

(***************************************************************************)
(* Properties of the visibility state                                      *)
(***************************************************************************)
\* C12: once the visibility state of a mounted instance is in-view, no step
\* of that instance (render, change of mediaId or loading, intersection
\* callback) puts it back to not-in-view.
C12_VisibilityOnlyForward ==
    [][(comp.mounted /\ comp.isInView /\ comp'.mounted) => comp'.isInView]_vars

\* the last render was of a lazy image
Lazy == comp.mounted /\ loadingAttr(comp.loading) = Str(<<"lazy">>)

\* C13: at most one observer is connected; none is connected while the
\* state is in-view (the intersecting callback that set it disconnected its
\* observer) or after the unmount; one is connected only for a lazy image
\* in a browser.
C13_ObserverOneShot ==
    /\ comp.observers <= 1
    /\ comp.isInView => comp.observers = 0
    /\ ~comp.mounted => comp.observers = 0
    /\ comp.observers > 0 => (Lazy /\ comp.env = "browser")

\* C13 witness: a lazy image in a browser whose observer reported an
\* intersecting entry: in-view, not yet rendered again, observer gone
C13_Witness ==
    /\ Lazy
    /\ comp.env = "browser"
    /\ comp.isInView
    /\ ~comp.rIsInView
    /\ comp.observers = 0

\* C14: a lazy image mounted in a host without window or without
\* IntersectionObserver gets to the in-view state, with no intersection
\* event (no observer exists there), unless it unmounts or turns eager.
C14_FailOpen ==
    /\ [](comp.env # "browser" => comp.observers = 0)
    /\ (Lazy /\ comp.env # "browser") ~> (~Lazy \/ comp.isInView)

\* C14 witness: a lazy image without IntersectionObserver rendered in view
C14_Witness ==
    /\ Lazy
    /\ comp.env \in {"noIO", "noWindow"}
    /\ comp.isInView
    /\ comp.rIsInView
    /\ comp.observers = 0

\* the last render was of an image whose loading attribute is not 'lazy'
Eager == comp.mounted /\ loadingAttr(comp.loading) # Str(<<"lazy">>)

WarningsFor(mediaId) ==
    Cardinality({i \in DOMAIN page.warnings : page.warnings[i] = mediaId})

\* every finite identifier rendered so far has exactly one warning, every
\* other identifier has none
OncePerRenderedIdentifier ==
    \A id \in ImgMediaIds :
        WarningsFor(id) = IF IsFinite(id) /\ id \in page.rendered THEN 1 ELSE 0

\* C16 as stated: after any sequence of renders of Img, the console has
\* received exactly one deprecation warning for each finite identifier
\* rendered at least once and none for any other identifier.
C16_WarnedOncePerIdentifier == OncePerRenderedIdentifier

\* C16 amended: the same in a host whose console.warn exists; in a host
\* without it no warning is emitted at all.
C16_WarnedOncePerIdentifierWithConsole ==
    /\ page.console => OncePerRenderedIdentifier
    /\ ~page.console => page.warnings = <<>>

\* C16 witness: identifier 1, then 2, then 1 again and a non-finite one
\* have been rendered; the console holds one warning for 1 and one for 2
C16_Witness ==
    /\ page.console
    /\ page.warnings = <<Num(1), Num(2)>>
    /\ page.props.mediaId = Num(1)
    /\ NaN \in page.rendered

\* the candidate values in the order of their priority, for a render with
\* the per-call config `config`
Candidates(config) ==
    <<config, page.defaultOptixFlowConfig, page.PageSpeedImgDefaults,
      page.OpensiteImgDefaults, page.PAGE_SPEED_IMG_DEFAULTS>>

\* the first candidate that is a config object, undefined when there is none
FirstDefined(candidates) ==
    LET defined == {i \in DOMAIN candidates : candidates[i].t = "obj"}
    IN  IF defined = {} THEN Undef
        ELSE candidates[CHOOSE i \in defined : \A j \in defined : i <= j]

\* C17: for every per-call config, the resolved configuration is the first
\* defined candidate in the order per-call, setDefaultOptixFlowConfig,
\* PageSpeedImgDefaults, OpensiteImgDefaults, PAGE_SPEED_IMG_DEFAULTS, as a
\* whole (no field of another candidate), and undefined when none is defined.
C17_FirstDefinedWins ==
    \A config \in PerCallConfigs :
        resolveOptixFlowConfig(page, config) = FirstDefined(Candidates(config))

\* React renders the ModernImg element in this step
ModernImgRenders == page.branch = "modern" /\ page.childPending /\ ~page'.childPending

\* C18: every render of an image without a per-call config uses the value
\* last given to setDefaultOptixFlowConfig, also when the component was
\* mounted before that call; after a call with null or undefined it uses
\* the host-global config, or none.
C18_DefaultReachesEveryRender ==
    [][(ModernImgRenders /\ page.props.optixFlowConfig = Undef) =>
            LET expected == FirstDefined(Candidates(Undef))
                used == page'.modern.resolvedOptixConfig
            IN  IF expected = Undef THEN used.t # "obj" ELSE used = expected]_vars

(***************************************************************************)
(* Properties of the classifier                                            *)
(***************************************************************************)
\* what descriptor `data` holds at position pos, undefined when the path to
\* the position does not exist
ValueAt(data, pos) ==
    IF data.t # "obj" THEN Undef
    ELSE IF pos.kind = "field" THEN data[pos.name]
    ELSE IF /\ data.variants_data.t = "obj"
            /\ data.variants_data.variants.t = "obj"
            /\ data.variants_data.variants[pos.format].t = "obj"
         THEN data.variants_data.variants[pos.format][pos.name]
         ELSE Undef

\* the positions among `positions` at which the descriptor holds a non-blank
\* string
NonBlankAt(data, positions) ==
    {pos \in positions : ValueAt(data, pos) \notin BlankValues}

\* C19: every answer for a descriptor whose twelve breakpoint slots and seven
\* direct fields are all absent or blank is false, every answer for one with
\* exactly one non-blank string among them is true, repeated calls give the
\* same answer, and the descriptor's caller finds the cache as it was.
C19_ClassifierByNonBlankSlot ==
    LET n == Cardinality(NonBlankAt(probe.data, SlotPositions \cup FieldPositions))
    IN  /\ n \in {0, 1}
        /\ \A i \in DOMAIN probe.answers : probe.answers[i] = (n = 1)
        /\ cache = <<>>

\* C19 witness: two calls for a descriptor whose only URL is a breakpoint
\* slot, both answered true
C19_Witness ==
    /\ Len(probe.answers) = 2
    /\ probe.answers[1]
    /\ probe.answers[2]
    /\ NonBlankAt(probe.data, FieldPositions) = {}
    /\ Cardinality(NonBlankAt(probe.data, SlotPositions)) = 1

\* a non-empty string
NonEmptyString(value) == value.t = "str" /\ value.s # <<>>

\* C20: the answer is true if and only if a breakpoint slot, a direct field
\* or fallback_url holds a non-empty string.
C20_RenderableIffAnyCandidate ==
    \A i \in DOMAIN probe.answers :
        probe.answers[i] = (\E pos \in Positions : NonEmptyString(ValueAt(probe.data, pos)))

(***************************************************************************)
(* Properties of the URL builder                                           *)
(***************************************************************************)
\* the normalised host H and the string the caller passed
HostOfProbe == cdnOrigin(probe.cdnHost)

Scheme(s, schemes) == Len(s) >= 3 /\ s[1] \in schemes /\ s[2] = "/" /\ s[3] = "/"

\* the number of slashes a string starts with
RECURSIVE Slashes(_)
Slashes(s) == IF s = <<>> \/ Head(s) # "/" THEN 0 ELSE 1 + Slashes(Tail(s))

\* the reference of the normaliser, with the URL schemes it lets through
ReferenceNormaliser(url, H, schemes) ==
    IF url.t # "str" \/ \A i \in DOMAIN url.s : IsSpace(url.s[i]) THEN Undef
    ELSE CASE Scheme(url.s, schemes) \/ url.s[1] = "data:" -> url
           [] Slashes(url.s) >= 2 -> Str(<<"https:">> \o url.s)
           [] Slashes(url.s) = 1 -> Str(H \o url.s)
           [] OTHER -> Str(H \o <<"/">> \o url.s)

LowerCaseSchemes == {"http:", "https:"}
AnyCaseSchemes == {"http:", "https:", "Http:", "HTTP:", "HTTPS:"}

\* C23 as stated: the normaliser equals the reference in which a string
\* starting with http:// or https:// (as written, in lower case) or data: is
\* returned unchanged, '//...' gets 'https:' in front, '/...' gets H in
\* front, any other non-blank string gets H + '/' in front, and a blank or
\* non-string input gives no candidate.
C23_NormaliserEqualsReference ==
    \A i \in DOMAIN probe.answers :
        probe.answers[i].op = "ensureAbsolute" =>
            probe.answers[i].value = ReferenceNormaliser(probe.url, HostOfProbe, LowerCaseSchemes)

\* C23 amended: the same reference, with the http:// and https:// prefixes
\* recognised in any letter case.
C23_NormaliserEqualsReferenceAnyCase ==
    \A i \in DOMAIN probe.answers :
        probe.answers[i].op = "ensureAbsolute" =>
            probe.answers[i].value = ReferenceNormaliser(probe.url, HostOfProbe, AnyCaseSchemes)

\* C23 witness: a root-relative URL was normalised against an explicit host
C23_Witness ==
    /\ probe.url = Str(<<"/", "img", "/", "1", ".", "jpg">>)
    /\ probe.cdnHost = Str(<<"https:", "/", "/", "img", ".", "test">>)
    /\ Len(probe.answers) >= 1
    /\ probe.answers[1].op = "ensureAbsolute"
    /\ probe.answers[1].value =
            Str(<<"https:", "/", "/", "img", ".", "test", "/", "img", "/", "1", ".", "jpg">>)

\* a double slash other than the one that follows the scheme
DoubleSlashAfterScheme(s) ==
    \E i \in 1..(Len(s) - 1) : s[i] = "/" /\ s[i + 1] = "/" /\ i # 2

\* C24: buildPlaceholderImageUrl(id, host) is '<host>/assets/low_res_thumb/<id>'
\* (the default host https://cdn.ing when none is given, an explicit host
\* without its trailing slash) and has no double slash after the scheme.
C24_PlaceholderUrl ==
    \A i \in DOMAIN probe.answers :
        probe.answers[i].op = "buildPlaceholderImageUrl" =>
            LET url == probe.answers[i].value.s
                host == IF probe.cdnHost = Undef
                        THEN <<"https:", "/", "/", "cdn", ".", "ing">>
                        ELSE probe.cdnHost.s
                tail == <<"/", "assets", "/", "low_res_thumb", "/", ToString(probe.mediaId.n)>>
            IN  /\ \/ url = host \o tail
                   \/ host[Len(host)] = "/" /\ url = SubSeq(host, 1, Len(host) - 1) \o tail
                /\ ~DoubleSlashAfterScheme(url)

(***************************************************************************)
(* Properties of the result cache                                          *)
(***************************************************************************)
\* the positions before i of the cacheSet calls for key k
SetsBefore(i, k) ==
    {j \in 1..(i - 1) : probe.answers[j].op = "cacheSet" /\ probe.answers[j].key = k}

Latest(js) == CHOOSE j \in js : \A m \in js : m <= j

\* C25: cacheGet(k) returns the value of the most recent cacheSet(k, v), or
\* undefined when there was none; cacheHas(k) is true exactly when some
\* cacheSet(k, _) has happened; an entry once present is never removed.
C25_CacheIsAMap ==
    /\ [](\A i \in DOMAIN probe.answers :
            LET call == probe.answers[i]
                sets == SetsBefore(i, call.key)
            IN  /\ call.op = "cacheGet" =>
                    call.value = (IF sets = {} THEN UndefData
                                  ELSE probe.answers[Latest(sets)].value)
                /\ call.op = "cacheHas" => (call.has <=> sets # {}))
    /\ [][\A k \in DOMAIN cache : k \in DOMAIN cache']_vars

\* C25 witness: a key was set twice and then read: the second value came back
C25_Witness ==
    /\ Len(probe.answers) = 3
    /\ probe.answers[1].op = "cacheSet"
    /\ probe.answers[2].op = "cacheSet"
    /\ probe.answers[3].op = "cacheGet"
    /\ probe.answers[1].key = probe.answers[3].key
    /\ probe.answers[2].key = probe.answers[3].key
    /\ probe.answers[1].value = ReadyData
    /\ probe.answers[2].value = DirectData
    /\ probe.answers[3].value = DirectData

(***************************************************************************)
(* Properties of the resolver                                              *)
(***************************************************************************)
\* the candidates in the order of the claim; a "best" candidate stands for
\* a format, the others for a place of the descriptor
BestOrder == <<"WEBP", "JPEG", "AVIF">>
SlotOrder == <<"sm", "md", "lg", "full">>
FieldOrder ==
    <<"img_url", "file_data_url", "file_data_thumbnail_url", "img_src", "med_src",
      "thumb_src", "low_res_thumb", "fallback_url">>

Slot(format, name) == [kind |-> "slot", format |-> format, name |-> name]

\* best of a format: the first of md, lg, sm, full that holds a value (a
\* string that is not empty)
BestOf(data, format) ==
    LET set == {n \in {"md", "lg", "sm", "full"} :
                    NonEmptyString(ValueAt(data, Slot(format, n)))}
    IN  IF "md" \in set THEN ValueAt(data, Slot(format, "md"))
        ELSE IF "lg" \in set THEN ValueAt(data, Slot(format, "lg"))
        ELSE IF "sm" \in set THEN ValueAt(data, Slot(format, "sm"))
        ELSE IF "full" \in set THEN ValueAt(data, Slot(format, "full"))
        ELSE Undef

\* the 3 + 12 + 8 candidates of a descriptor, not normalised
CandidateAt(data, i) ==
    IF i <= 3 THEN BestOf(data, BestOrder[i])
    ELSE IF i <= 15
    THEN ValueAt(data, Slot(BestOrder[((i - 4) \div 4) + 1], SlotOrder[((i - 4) % 4) + 1]))
    ELSE ValueAt(data, [kind |-> "field", format |-> "none", name |-> FieldOrder[i - 15]])

NormalisedAt(data, i) == ReferenceNormaliser(CandidateAt(data, i), HostOfProbe, AnyCaseSchemes)

NonBlankCandidates(data) == {i \in 1..23 : NormalisedAt(data, i) # Undef}

\* C21: the fallback URL of the picture memo is the first candidate that is
\* non-blank after normalisation, in the order best of WEBP, of JPEG, of
\* AVIF, the raw slots sm, md, lg, full of WEBP, of JPEG, of AVIF, the seven
\* direct fields, fallback_url; without such a candidate the memo is null.
C21_FallbackIsFirstCandidate ==
    \A k \in DOMAIN probe.answers :
        probe.answers[k].op = "picture" =>
            LET pic == probe.answers[k].picture
                found == NonBlankCandidates(probe.data)
            IN  IF found = {} THEN pic.t = "null"
                ELSE /\ pic.t = "obj"
                     /\ pic.fallback =
                            NormalisedAt(probe.data, CHOOSE i \in found : \A j \in found : i <= j)

\* C21 witness: a descriptor with a JPEG md URL and an img_url resolved to
\* the JPEG URL against the explicit host
C21_Witness ==
    /\ Len(probe.answers) >= 1
    /\ probe.answers[1].op = "picture"
    /\ ValueAt(probe.data, Slot("JPEG", "md")) = UrlAt(Slot("JPEG", "md"))
    /\ probe.data.img_url = Str(<<"/", "img_url", ".", "jpg">>)
    /\ probe.cdnHost # Undef
    /\ probe.answers[1].picture.fallback =
            Str(<<"https:", "/", "/", "img", ".", "test">> \o UrlAt(Slot("JPEG", "md")).s)

\* the breakpoints of a format, from position i of SlotOrder on, that
\* contribute an entry: those with a non-blank URL and, where zeroDrops, a
\* width in the table that is not 0
RECURSIVE Contributing(_, _, _, _, _)
Contributing(data, format, widths, zeroDrops, i) ==
    IF i > Len(SlotOrder) THEN <<>>
    ELSE LET n == SlotOrder[i]
             url == ReferenceNormaliser(ValueAt(data, Slot(format, n)), HostOfProbe,
                                        AnyCaseSchemes)
             rest == Contributing(data, format, widths, zeroDrops, i + 1)
         IN  IF url # Undef /\ (zeroDrops => widths[n].n # 0)
             THEN <<[url |-> url.s, width |-> widths[n].n]>> \o rest
             ELSE rest

\* '<absoluteUrl> <width>w' for each of them, joined by ', '
RECURSIVE Joined(_)
Joined(entries) ==
    IF entries = <<>> THEN <<>>
    ELSE (IF Len(entries) > 1 THEN Joined(SubSeq(entries, 1, Len(entries) - 1)) \o <<",", " ">>
          ELSE <<>>)
         \o entries[Len(entries)].url \o <<" ", ToString(entries[Len(entries)].width), "w">>

SrcSetsAsClaimed(zeroDrops) ==
    \A k \in DOMAIN probe.answers :
        (probe.answers[k].op = "picture" /\ probe.answers[k].picture.t = "obj") =>
            \A format \in Formats :
                LET set == probe.answers[k].sets[ToLowerCase(<<format>>)[1]]
                    entries == Contributing(probe.data, format, probe.answers[k].picture.widths,
                                            zeroDrops, 1)
                IN  IF entries = <<>> THEN set = Undef
                    ELSE set = Str(Joined(entries))

\* the width table: the widths of the WEBP metadata when it has any, else
\* those of the JPEG metadata, a missing width filled from the default
\* table 640, 1024, 1536, 2560
WidthTableIsFromMetadata ==
    \A k \in DOMAIN probe.answers :
        (probe.answers[k].op = "picture" /\ probe.answers[k].picture.t = "obj"
            /\ probe.data \in WidthDescriptors) =>
            LET webp == probe.data.variants_data.variants.WEBP.metadata
                jpeg == probe.data.variants_data.variants.JPEG.metadata
                w == probe.answers[k].picture.widths
            IN  /\ webp = Metadata(Widths(Num(320), Num(800), NoNumber, NoNumber)) =>
                        w = [t |-> "obj", sm |-> Num(320), md |-> Num(800), lg |-> Num(1536),
                             full |-> Num(2560)]
                /\ (webp.widths.t = "obj" /\ webp.widths.sm = Num(400)) =>
                        w = [t |-> "obj", sm |-> Num(400), md |-> Num(1024), lg |-> Num(1200),
                             full |-> Num(2560)]
                /\ (webp.widths.t # "obj" /\ jpeg.t = "obj") =>
                        w = [t |-> "obj", sm |-> Num(300), md |-> Num(1024), lg |-> Num(1536),
                             full |-> Num(2000)]
                /\ (webp.widths.t # "obj" /\ jpeg.t # "obj") =>
                        w = [t |-> "obj", sm |-> Num(640), md |-> Num(1024), lg |-> Num(1536),
                             full |-> Num(2560)]

\* C22 as stated: the source-set of a format is one entry
\* '<absoluteUrl> <width>w' for every breakpoint whose URL is non-blank, in
\* the order sm, md, lg, full, joined by ', ', with the widths of the width
\* table; undefined, never an empty string, when no breakpoint has a
\* non-blank URL.
C22_SrcSetPerNonBlankBreakpoint == SrcSetsAsClaimed(FALSE) /\ WidthTableIsFromMetadata

\* C22 amended: the same for the breakpoints whose URL is non-blank and
\* whose width in the table is not 0; undefined when there is none.
C22_SrcSetPerNonBlankBreakpointWithWidth == SrcSetsAsClaimed(TRUE) /\ WidthTableIsFromMetadata

\* C22 witness: WEBP URLs at sm and md with the widths 320 and 800 of the
\* WEBP metadata give a source-set of two entries
C22_Witness ==
    /\ Len(probe.answers) >= 1
    /\ probe.answers[1].op = "picture"
    /\ probe.cdnHost = Undef
    /\ probe.answers[1].sets.webp =
            Str(<<"https:", "/", "/", "cdn", ".", "ing", "/", "a", "-", "sm", ".", "webp",
                  " ", "320", "w", ",", " ",
                  "https:", "/", "/", "cdn", ".", "ing", "/", "a", "-", "md", ".", "webp",
                  " ", "800", "w">>)
    /\ probe.answers[1].sets.avif = Undef

(***************************************************************************)
(* Properties of the renders of LegacyImg                                  *)
(***************************************************************************)
\* {host}/assets/low_res_thumb/{id} for the props of the caller
PlaceholderOfProbe ==
    (IF probe.cdnHost = Undef THEN <<"https:", "/", "/", "cdn", ".", "ing">>
     ELSE IF probe.cdnHost.s[Len(probe.cdnHost.s)] = "/"
     THEN SubSeq(probe.cdnHost.s, 1, Len(probe.cdnHost.s) - 1)
     ELSE probe.cdnHost.s)
    \o <<"/", "assets", "/", "low_res_thumb", "/", ToString(probe.mediaId.n)>>

Hint(value, default) == IF value \in {Undef, Null} THEN Str(<<default>>) ELSE value

\* C26: a render that sees the visibility state not in-view, or no
\* descriptor, or a descriptor without resolvable source, returns a single
\* img whose src is the placeholder URL, with the loading and decoding
\* hints of the props (lazy and async by default) and without source-set.
C26_PlaceholderUnlessInView ==
    \A k \in DOMAIN probe.answers :
        probe.answers[k].op = "render" =>
            LET el == probe.answers[k].element
            IN  (\/ ~probe.isInView
                 \/ probe.data.t # "obj"
                 \/ NonBlankCandidates(probe.data) = {}) =>
                    /\ el.tag = "img"
                    /\ el.sources = <<>>
                    /\ el.img.src = Str(PlaceholderOfProbe)
                    /\ el.img.srcSet = Undef
                    /\ el.img.loading = Hint(probe.loading, "lazy")
                    /\ el.img.decoding = Hint(probe.decoding, "async")

\* C26 witness: a descriptor with WEBP and JPEG URLs rendered while not in
\* view, with loading="eager" and decoding="sync"
C26_Witness ==
    /\ Len(probe.answers) >= 1
    /\ probe.answers[1].op = "render"
    /\ ~probe.isInView
    /\ ValueAt(probe.data, Slot("JPEG", "sm")) = Str(<<"/", "a", ".", "jpg">>)
    /\ probe.loading = Str(<<"eager">>)
    /\ probe.decoding = Str(<<"sync">>)
    /\ probe.answers[1].element.img.src =
            Str(<<"https:", "/", "/", "cdn", ".", "ing", "/", "assets", "/", "low_res_thumb",
                  "/", "1">>)
    /\ probe.answers[1].element.img.loading = Str(<<"eager">>)

\* the JPEG URLs of the descriptor, normalised
JpegUrls(data) ==
    {ReferenceNormaliser(ValueAt(data, Slot("JPEG", n)), HostOfProbe, AnyCaseSchemes) :
        n \in SizeNames} \ {Undef}

\* the source-set of a format as C22 gives it, with the default width table
SrcSetOf(data, format) ==
    LET entries == Contributing(data, format, DEFAULT_WIDTHS, TRUE, 1)
    IN  IF entries = <<>> THEN Undef ELSE Str(Joined(entries))

InViewWithSource ==
    /\ probe.isInView
    /\ probe.data.t = "obj"
    /\ NonBlankCandidates(probe.data) # {}

\* the output in view: a picture with the AVIF source, then the WEBP
\* source, then the img, when a format has a source-set; else a single img
\* with the fallback URL
PictureShape(el) ==
    LET avif == SrcSetOf(probe.data, "AVIF")
        webp == SrcSetOf(probe.data, "WEBP")
        jpeg == SrcSetOf(probe.data, "JPEG")
        fallback == NormalisedAt(probe.data,
                        CHOOSE i \in NonBlankCandidates(probe.data) :
                            \A j \in NonBlankCandidates(probe.data) : i <= j)
    IN  IF avif = Undef /\ webp = Undef /\ jpeg = Undef
        THEN /\ el.tag = "img"
             /\ el.sources = <<>>
             /\ el.img.src = fallback
             /\ el.img.srcSet = Undef
        ELSE /\ el.tag = "picture"
             /\ [i \in DOMAIN el.sources |-> el.sources[i].type] =
                    (IF avif # Undef THEN <<"image/avif">> ELSE <<>>)
                        \o (IF webp # Undef THEN <<"image/webp">> ELSE <<>>)
             /\ \A i \in DOMAIN el.sources :
                    el.sources[i].srcSet =
                        (IF el.sources[i].type = "image/avif" THEN avif ELSE webp)

\* the img of the output carries a JPEG URL in its src or its srcset
ImgCarriesJpeg(el) ==
    \/ el.img.src \in JpegUrls(probe.data)
    \/ el.img.srcSet # Undef /\ el.img.srcSet = SrcSetOf(probe.data, "JPEG")

\* C27: in view, with a source-set for some format the output is a picture
\* whose sources are AVIF, then WEBP, with the img last, and whenever the
\* descriptor has a JPEG rendition the img's src or srcset is a JPEG URL;
\* with no source-set the output is a single img with the fallback URL.
C27_ImgCarriesLowestCommonFormat ==
    \A k \in DOMAIN probe.answers :
        (probe.answers[k].op = "render" /\ InViewWithSource) =>
            /\ PictureShape(probe.answers[k].element)
            /\ (probe.answers[k].element.tag = "picture" /\ JpegUrls(probe.data) # {}) =>
                    ImgCarriesJpeg(probe.answers[k].element)

\* meta.content_manifest.optimized_filename when it is a non-empty string
BaseFilename(data) ==
    IF data.t = "obj" /\ data.meta.t = "obj" /\ data.meta.content_manifest.t = "obj"
        /\ NonEmptyString(data.meta.content_manifest.optimized_filename)
    THEN data.meta.content_manifest.optimized_filename.s
    ELSE <<>>

\* the positions of a token in a string
Occurrences(s, tok) == {i \in DOMAIN s : s[i] = tok}

\* the file name of a URL (what follows its last slash) and the lower-cased
\* extension of that file name, jpg when it has none
FileName(url) ==
    LET slashes == Occurrences(url, "/")
    IN  IF slashes = {} THEN url
        ELSE SubSeq(url, (CHOOSE i \in slashes : \A j \in slashes : j <= i) + 1, Len(url))

Extension(url) ==
    LET name == FileName(url)
        dots == Occurrences(name, ".")
    IN  IF dots = {} THEN <<"jpg">>
        ELSE ToLowerCase(SubSeq(name, (CHOOSE i \in dots : \A j \in dots : j <= i) + 1,
                                Len(name)))

\* C28: data-filename is attached exactly when the descriptor has an
\* optimized base filename and a fallback URL was resolved (and is what the
\* render outputs); its value is '<base>.<ext>' with ext the lower-cased
\* extension of the fallback URL's file name, jpg when it has none.
C28_FilenameExtension ==
    \A k \in DOMAIN probe.answers :
        probe.answers[k].op = "render" =>
            LET img == probe.answers[k].element.img
                base == BaseFilename(probe.data)
            IN  IF InViewWithSource /\ base # <<>>
                THEN img.dataFilename = Str(base \o <<".">> \o Extension(img.src.s))
                ELSE img.dataFilename = Undef

\* an explicit dimension that counts: a finite number or a numeric string
NumericStrings == {Str(<<"200">>), Str(<<"100">>), Str(<<"50">>)}
IsNumeric(explicit) == explicit.t = "num" \/ explicit \in NumericStrings

\* the dimension the descriptor declares: meta.sizing, then
\* variants_data.metadata, else undefined
Declared(data, name) ==
    LET d == data
    IN  IF d.t = "obj" /\ d.meta.t = "obj" /\ d.meta.sizing.t = "obj"
            /\ d.meta.sizing[name].t = "num"
        THEN d.meta.sizing[name]
        ELSE IF d.t = "obj" /\ d.variants_data.t = "obj"
                 /\ d.variants_data.metadata.t = "obj"
                 /\ d.variants_data.metadata[name].t = "num"
             THEN d.variants_data.metadata[name]
             ELSE NoNumber

DimensionAsClaimed(explicit, data, name) ==
    IF IsNumeric(explicit) THEN explicit ELSE Declared(data, name)

\* C29: the rendered width and height are the explicit prop when it is a
\* finite number or a numeric string, else the dimension the descriptor
\* declares (meta.sizing, then variants_data.metadata), else undefined.
C29_DimensionPrecedence ==
    \A k \in DOMAIN probe.answers :
        probe.answers[k].op = "render" =>
            LET img == probe.answers[k].element.img
            IN  /\ img.width = DimensionAsClaimed(probe.width, probe.data, "width")
                /\ img.height = DimensionAsClaimed(probe.height, probe.data, "height")

\* the element the last render of the component returned
RenderedByComp(c) ==
    LegacyImgElement(
        [mediaId |-> c.mediaId, cdnHost |-> c.cdnHost, loading |-> c.loading,
         decoding |-> Undef, sizes |-> Undef, src |-> Undef, width |-> Absent,
         height |-> Absent],
        c.rData, c.rIsInView)

\* the placeholder image for the identifier of the component
IsPlaceholderFor(el, c) ==
    /\ el.tag = "img"
    /\ el.sources = <<>>
    /\ el.img.srcSet = Undef
    /\ el.img.src = Str(<<"https:", "/", "/", "cdn", ".", "ing", "/", "assets", "/",
                          "low_res_thumb", "/", ToString(c.mediaId.n)>>)

\* the network answers the pending request of slot s, and the invocation
\* rejects (both endpoints have failed)
FetchFails(s, o) ==
    /\ FetchRespond(s, o)
    /\ AfterOutcome(calls[s], o).pc = "rejected"

\* React renders the component
RenderStep ==
    \/ \E p \in FetchProps, s \in FetchSlots \cup {0} : Mount(p, s, "browser") \/ SetProps(p, s)
    \/ \E s \in FetchSlots \cup {0} : Rerender(s)

\* the identifiers a fetch of which has failed
FailedIds(pg) == {pg.fetchWarnings[i] : i \in DOMAIN pg.fetchWarnings}

\* a failed fetch is logged once, and nothing else is logged; the component
\* stays mounted
LoggedOnce ==
    /\ \A s \in FetchSlots, o \in CompOutcomes :
            FetchFails(s, o) =>
                /\ page'.fetchWarnings = Append(page.fetchWarnings, calls[s].mediaId)
                /\ comp'.mounted = comp.mounted
    /\ page'.fetchWarnings # page.fetchWarnings =>
            \E s \in FetchSlots, o \in CompOutcomes : FetchFails(s, o)

C31_DisplayNameIsOpenSiteImg == page.displayName = "OpenSiteImg"

\* the cache key and the first request of the concurrent callers
ConcurrentKey == <<"image:", "https:", "/", "/", "cdn", ".", "ing", ":", "1">>
ConcurrentRequest ==
    <<"https:", "/", "/", "cdn", ".", "ing", "/", "assets", "/", "images", "/", "1">>

\* the invocations other than s are left as they are
OthersUntouched(s) == \A t \in Slots \ {s} : calls'[t] = calls[t]

\* C32: calls for the same identifier and host are not de-duplicated.  A
\* call that starts while the cache has no entry issues its own request,
\* whatever the other calls are doing; aborting the signal of one call
\* rejects that call alone and leaves the others and the cache as they are;
\* every call that completes with a renderable descriptor writes it to the
\* cache over what an earlier call wrote (last write wins), and no other
\* completion changes the cache.
C32_ConcurrentCallsAreIndependent ==
    [][/\ \A s \in ConcurrentSlots, b \in BOOLEAN :
            (ConcurrentCall(s, b) /\ ~cacheHas(cache, ConcurrentKey)) =>
                /\ calls'[s].pc = "fetching"
                /\ calls'[s].requested = <<ConcurrentRequest>>
                /\ OthersUntouched(s)
       /\ \A s \in ConcurrentSlots :
            ApiAbort(s) =>
                /\ calls'[s].pc = "rejected"
                /\ calls'[s].error.name = "AbortError"
                /\ OthersUntouched(s)
                /\ cache' = cache
       /\ \A s \in ConcurrentSlots, o \in ConcurrentOutcomes :
            NetworkRespond(s, o) =>
                /\ OthersUntouched(s)
                /\ IF o.kind = "ok" /\ o.body \in {ReadyData, DirectData}
                   THEN /\ DOMAIN cache' = {ConcurrentKey}
                        /\ cache'[ConcurrentKey] = o.body
                   ELSE cache' = cache]_vars

\* C32 witness: two calls started while the cache was empty, both were
\* answered by the network, the first one with one renderable descriptor
\* and then the second one with another, which is what the cache holds
C32_Witness ==
    /\ calls[1].pc = "resolved" /\ calls[2].pc = "resolved"
    /\ ~calls[1].bypassCache /\ ~calls[2].bypassCache
    /\ calls[1].from = "network" /\ calls[2].from = "network"
    /\ calls[1].result = ReadyData
    /\ calls[2].result = DirectData
    /\ cache[ConcurrentKey] = DirectData

\* C33: when the primary endpoint answers 2xx with a descriptor that has
\* no renderable source, the call resolves to that descriptor, the legacy
\* endpoint is not requested, and the cache is left exactly as it was.
C33_NonRenderableLeavesCache ==
    [][\A s \in ApiSlots, o \in Outcomes(ApiBodies) :
            (/\ NetworkRespond(s, o)
             /\ Len(calls[s].requested) = 1
             /\ o.kind = "ok"
             /\ ~imageDataHasRenderableSource(o.body)) =>
                /\ calls'[s].pc = "resolved"
                /\ calls'[s].result = o.body
                /\ calls'[s].requested = calls[s].requested
                /\ cache' = cache]_vars

\* C33 witness: a call that bypassed the cache was answered by the primary
\* endpoint with a pending descriptor; the entry an earlier call cached for
\* the same key is still there
C33_Witness ==
    /\ calls[1].pc = "resolved"
    /\ calls[1].bypassCache
    /\ calls[1].from = "network"
    /\ calls[1].result = PendingData
    /\ Len(calls[1].requested) = 1
    /\ CacheKey(calls[1].mediaId, calls[1].cdnHost) \in DOMAIN cache
    /\ cache[CacheKey(calls[1].mediaId, calls[1].cdnHost)] = ReadyData

\* C34: the resolver yields a fallback URL for a descriptor if and only if
\* the classifier calls the descriptor renderable.
C34_ResolverAgreesWithClassifier ==
    \A k \in DOMAIN probe.answers :
        probe.answers[k].op = "picture" =>
            ((probe.answers[k].picture.t = "obj" /\ probe.answers[k].picture.fallback # Undef)
                <=> imageDataHasRenderableSource(probe.data))

\* the fetches of the component whose signal has not been aborted
LiveFetches == {s \in FetchSlots : calls[s].pc # "idle" /\ ~calls[s].aborted}

\* the then callback of the invocation in slot s hands its descriptor to
\* the mounted component in this step
Applies(s) ==
    /\ comp.mounted
    /\ \/ FetchThen(s)
       \/ \E o \in CompOutcomes : FetchRespond(s, o) /\ AfterOutcome(calls[s], o).pc = "resolved"

\* at most one fetch of the component has a signal that is not aborted,
\* and it is the one of the last fetch effect
OneLiveFetch ==
    /\ Cardinality(LiveFetches) <= 1
    /\ \A s \in LiveFetches : comp.mounted /\ comp.controller = s

\* a descriptor that is applied was fetched for the identifier and host of
\* the component's props
AppliedForCurrentProps ==
    \A s \in FetchSlots :
        Applies(s) => /\ calls[s].mediaId = comp.mediaId
                      /\ calls[s].cdnHost = comp.cdnHost

\* C35: the signal of the previous fetch is aborted before the fetch effect
\* issues a new fetch and when the component unmounts, so at most one fetch
\* with a signal that is not aborted exists per component, and a response
\* for an earlier identifier is never applied to the descriptor state of the
\* current one.
C35_OneFetchAndNoStaleResponse ==
    /\ []OneLiveFetch
    /\ [][AppliedForCurrentProps]_vars

\* C36: whenever the last render of the component returned something other
\* than the placeholder, the descriptor it saw had been fetched for the
\* mediaId and cdnHost of that render.
C36_RenderedDescriptorIsForCurrentId ==
    (comp.mounted /\ ~IsPlaceholderFor(RenderedByComp(comp), comp)) =>
        comp.rDataFor = CacheKey(comp.mediaId, comp.cdnHost)

\* the render of this step is the mount, or one with another mediaId or
\* cdnHost, and its fetch effect issues the invocation in slot s
FirstFetchFor(s) ==
    \E p \in FetchProps :
        \/ Mount(p, s, "browser")
        \/ SetProps(p, s) /\ (p.mediaId # comp.mediaId \/ p.cdnHost # comp.cdnHost)

\* the render of this step follows a firing of the poll timer
AfterPoll == comp.retryCount > comp.rRetryCount

\* C37: the first fetch after the mount or after a change of mediaId or
\* cdnHost consults the cache, whatever the attempt counter was; a fetch
\* that bypasses the cache is issued only by the render that follows a
\* firing of the poll timer; and a render caused by a state update issues a
\* fetch only after such a firing, so that the new identifier gets exactly
\* one fetch before any poll.
C37_BypassOnlyAfterPoll ==
    [][\A s \in FetchSlots :
        /\ FirstFetchFor(s) => ~calls'[s].bypassCache
        /\ Rerender(s) => AfterPoll
        /\ ((Rerender(s) \/ \E p \in FetchProps : SetProps(p, s)) /\ calls'[s].bypassCache)
                => (Rerender(s) /\ AfterPoll)]_vars

\* the host prefix of a primary endpoint URL '<host>/assets/images/<id>'
HostPrefix(url) == SubSeq(url, 1, Len(url) - 6)

\* the host embedded in a cache key 'image:<host>:<id>'
KeyHost(key) == SubSeq(key, 2, Len(key) - 2)

\* C38: for every call that has requested an endpoint, the host embedded in
\* its cache key is the host prefix of the primary and legacy URLs it
\* requested, so calls that request the same URLs share one key; and
\* normalising the normalised host changes nothing.
C38_KeyHostIsUrlHost ==
    \A s \in ApiSlots :
        calls[s].requested # <<>> =>
            LET call == calls[s]
                host == KeyHost(CacheKey(call.mediaId, call.cdnHost))
            IN  /\ call.requested[1] =
                        host \o <<"/", "assets", "/", "images", "/">> \o NumToStr(call.mediaId)
                /\ Len(call.requested) > 1 =>
                        call.requested[2] = host \o <<"/", "i", "/", "r", "/">> \o NumToStr(call.mediaId)
                /\ HostPrefix(call.requested[1]) = host
                /\ normalizeHost(Str(host)) = host

\* what holds of a LegacyImg rendered with loading="eager": its mount
\* starts in view, its renders leave no observer connected and return an
\* element with loading="eager"
LoadsEagerly ==
    /\ (\E p \in EagerProps, s \in FetchSlots : Mount(p, s, "browser")) =>
            comp'.rIsInView /\ comp'.isInView
    /\ comp'.observers = 0
    /\ RenderedByComp(comp').img.loading = Str(<<"eager">>)

EagerRenderStep ==
    \/ \E p \in EagerProps, s \in FetchSlots \cup {0} : Mount(p, s, "browser") \/ SetProps(p, s)
    \/ \E s \in FetchSlots \cup {0} : Rerender(s)

\* C39: a render with eager=true and a finite mediaId behaves as a render
\* with loading="eager": the mount starts in view, no intersection observer
\* is created and the element has loading="eager".
C39_EagerIsLoadingEager ==
    [][(EagerRenderStep /\ (comp'.eager \/ comp'.loading = Str(<<"eager">>))) =>
            LoadsEagerly]_vars

\* the pending frame callbacks of the i-th source, and the srcset the
\* callback requested last for it holds
PendingFor(i) == {k \in DOMAIN page.frames : page.frames[k].source = i}

LastCaptured(i) ==
    page.frames[CHOOSE k \in PendingFor(i) : \A j \in PendingFor(i) : j <= k].srcset

HasSrcset(source) == source.srcset \notin {Null, Str(<<>>)}

\* a call with the picture removes every non-empty srcset at once and
\* requests one frame callback for it; other sources are untouched
RemovedAtOnce ==
    ResetPicture("picture") =>
        /\ \A i \in DOMAIN page.sources :
                IF HasSrcset(page.sources[i])
                THEN /\ page'.sources[i].srcset = Null
                     /\ \E k \in DOMAIN page'.frames \ DOMAIN page.frames :
                            page'.frames[k] = [source |-> i, srcset |-> page.sources[i].srcset]
                ELSE page'.sources[i] = page.sources[i]
        /\ Len(page'.frames) =
                Len(page.frames)
                    + Cardinality({i \in DOMAIN page.sources : HasSrcset(page.sources[i])})

\* a call with null changes nothing
NullIsNoOp ==
    ResetPicture("null") => (page'.sources = page.sources /\ page'.frames = page.frames)

\* after the frame callbacks a source that was not changed since its srcset
\* was removed has the srcset it had when the callback was requested
ReappliedInFrame ==
    AnimationFrame =>
        /\ page'.frames = <<>>
        /\ \A i \in DOMAIN page.sources :
                IF PendingFor(i) # {} /\ page.sources[i].srcset = Null
                THEN page'.sources[i].srcset = LastCaptured(i)
                ELSE PendingFor(i) = {} => page'.sources[i] = page.sources[i]

\* after the frame callbacks a source whose srcset was set again in between
\* keeps that newer value
NewerValueKept ==
    AnimationFrame =>
        \A i \in DOMAIN page.sources :
            (PendingFor(i) # {} /\ page.sources[i].srcset # Null) =>
                page'.sources[i].srcset = page.sources[i].srcset

\* C40: resetResponsivePictureState removes every non-empty srcset at once
\* and sets it again in the next animation frame; after the frame callbacks
\* each source has the srcset it had when its callback was requested, or,
\* when the srcset was changed in between, the newer value; sources without
\* srcset are untouched and a null element is a no-op.
C40_RemoveThenReapply ==
    [][RemovedAtOnce /\ NullIsNoOp /\ ReappliedInFrame /\ NewerValueKept]_vars

=============================================================================
